---------------------------- MODULE Spec2Model ----------------------------
(***************************************************************************)
(* Model of backend/server.py: the tiered audit runner                     *)
(* (run_lighthouse_analysis, get_basic_page_metrics), the screenshot       *)
(* capturer (generate_responsive_screenshots), the score aggregator        *)
(* (calculate_performance_metrics) and the analyze_website handler.        *)
(*                                                                         *)
(* Scores are kept in hundredths: the Python score 0.75 is the integer 75. *)
(* Python dicts are functions whose DOMAIN is the set of keys present.     *)
(***************************************************************************)
EXTENDS Integers, Sequences, FiniteSets, TLC

VARIABLES
    url_https,          \* the analysed url starts with "https://"
    rl_pc,              \* position of run_lighthouse_analysis
    temp_file,          \* "unbound" | "present" | "absent" (name bound, file on disk or not)
    process_full,       \* subprocess of the full probe
    process_reduced,    \* subprocess of the reduced probe
    probed_page,        \* history: what the heuristic probe measured on the page
    lighthouse_result,  \* dict returned by run_lighthouse_analysis
    tiers_started,      \* history: tiers entered, in order
    tier_outcome,       \* history: "none" | "ok" | "failed" per tier
    shot_pc,            \* position of generate_responsive_screenshots
    shot_idx,           \* index into screen_sizes of the viewport being captured
    shot_browser,       \* "none" | "open" | "closed"
    screenshots,        \* the list generate_responsive_screenshots builds
    shot_failed,        \* history: indices of the viewports whose capture raised
    agg_pc,             \* "input" | "done": calculate_performance_metrics applied or not
    agg_score,          \* its argument lighthouse_score
    agg_counts,         \* its arguments keywords_count and backlinks_count
    agg_side,           \* side of the exact mean on which the computed double lies
    agg_metrics,        \* the dict it returns
    an_pc,              \* position of the analyze_website handler
    gemini_key,         \* GEMINI_API_KEY is a non-empty string
    kw_pc,              \* position of the analyze_keywords task
    keywords,           \* the list analyze_keywords returns
    bl_pc,              \* position of the analyze_backlinks task
    backlinks,          \* the list analyze_backlinks returns
    site_page,          \* the page the analysed URL serves
    kw_fetch,           \* history: "none" | "ok" | "failed", the fetch of analyze_keywords
    bl_fetch,           \* history: "none" | "ok" | "failed", the fetch of analyze_backlinks
    issues,             \* the four issue lists extracted by the handler
    sug_pc,             \* position of generate_structured_ai_suggestions
    ai_suggestions,     \* the dict it builds and returns
    sug_calls,          \* history: number of chat.send_message calls made
    sug_failed,         \* history: LlmChat or a send_message call raised
    performance_metrics,\* result of calculate_performance_metrics in the handler
    db_analyses,        \* documents inserted into db.analyses
    response,           \* the HTTP response of the handler
    hard_failure,       \* history: the store insert or the response model failed
    store_clock,        \* datetime.utcnow() as a tick count
    store_ids,          \* number of ids drawn from uuid.uuid4()
    store_response,     \* response of the last request to the stored reports
    store_inserted,     \* history: id -> document handed to insert_one
    cmp_pc,             \* position of the analyze_competitors handler
    cmp_request,        \* its request: primary_url and competitor_urls, as sites
    primary_analysis,   \* scan of the primary site
    competitor_data,    \* scans of the competitors, in the order appended
    cmp_failed,         \* history: indices of the competitors whose scan raised
    cmp_scanning,       \* indices of the competitors whose scan is awaited
    cmp_peak,           \* history: largest number of competitor scans awaited at once
    comparison_insights,\* the dict generate_competitive_insights returns
    competitive_keywords,\* the list extract_competitive_keywords returns
    content_gaps,       \* the list identify_content_gaps returns
    cmp_response,       \* the HTTP response of analyze_competitors
    db_competitor_analyses, \* documents inserted into db.competitor_analyses
    audit_runs,         \* per concurrent request: position, temp file and port of its audit
    tmp_issued          \* number of names drawn by tempfile.NamedTemporaryFile

rlVars == <<url_https, rl_pc, temp_file, process_full, process_reduced,
            probed_page, lighthouse_result, tiers_started, tier_outcome>>

shotVars == <<shot_pc, shot_idx, shot_browser, screenshots, shot_failed>>

aggVars == <<agg_pc, agg_score, agg_counts, agg_side, agg_metrics>>

scanVars == <<kw_pc, keywords, bl_pc, backlinks, site_page, kw_fetch, bl_fetch>>

cmpVars == <<cmp_pc, cmp_request, primary_analysis, competitor_data, cmp_failed,
             cmp_scanning, cmp_peak,
             comparison_insights, competitive_keywords, content_gaps, cmp_response,
             db_competitor_analyses>>

reqVars == <<audit_runs, tmp_issued>>

sugVars == <<sug_pc, ai_suggestions, sug_calls, sug_failed>>

handlerVars == <<an_pc, gemini_key, issues, performance_metrics, db_analyses,
                 response, hard_failure>>

storeVars == <<store_clock, store_ids, store_response, store_inserted>>

vars == <<rlVars, shotVars, aggVars, scanVars, cmpVars, reqVars, sugVars, handlerVars, storeVars>>

\* what the steps of run_lighthouse_analysis leave alone
notRunner == <<shotVars, aggVars, scanVars, cmpVars, reqVars, sugVars, handlerVars, storeVars>>

\* what the steps of generate_responsive_screenshots leave alone
notShots == <<rlVars, aggVars, scanVars, cmpVars, reqVars, sugVars, handlerVars, storeVars>>

\* what calculate_performance_metrics leaves alone
notAggregate == <<rlVars, shotVars, scanVars, cmpVars, reqVars, sugVars, handlerVars, storeVars>>

\* what analyze_keywords and analyze_backlinks leave alone
notScan == <<rlVars, shotVars, aggVars, cmpVars, reqVars, sugVars, handlerVars, storeVars>>

\* what the steps of generate_structured_ai_suggestions leave alone
notSuggest == <<rlVars, shotVars, aggVars, scanVars, cmpVars, reqVars, handlerVars, storeVars>>

-----------------------------------------------------------------------------
(* Python dict helpers *)

EmptyDict == [k \in {} |-> 0]

Has(d, k) == k \in DOMAIN d

\* d.get(k, default)
Get(d, k, default) == IF k \in DOMAIN d THEN d[k] ELSE default

Min(a, b) == IF a <= b THEN a ELSE b

Max(a, b) == IF a >= b THEN a ELSE b

-----------------------------------------------------------------------------
(* Bounds of the model *)

\* page load time measured by the heuristic probe: 0, 500, ... ms
MaxLoadSteps == 13

\* images without alt text counted by the heuristic probe: 0..MaxAlt
MaxAlt == 11

\* keywords_count and backlinks_count given to calculate_performance_metrics: 0..MaxCount
MaxCount == 1

\* h1 elements counted by the heuristic probe: 0..MaxH1
MaxH1 == 2

-----------------------------------------------------------------------------
(* The external auditing tool's scorecard (lighthouse_data) *)

ToolCategories == {"performance", "accessibility", "best-practices", "seo"}

CategoryKeys == {"performance", "accessibility", "best_practices", "seo"}

\* category scores the tool reports, each in [0,1]
ToolScores == {0, 50, 100}

\* one entry of categories: with or without its score
ToolCategoryDicts == {EmptyDict} \cup {[score |-> v] : v \in ToolScores}

\* categories: any subset of the four names present
ToolCategoriesDicts ==
    UNION {[S -> ToolCategoryDicts] : S \in SUBSET ToolCategories}

\* audits: a few representative metric mappings
ToolAuditsDicts ==
    { EmptyDict,
      ("first-contentful-paint" :> [numericValue |-> 2500]),
      ("first-contentful-paint" :> [numericValue |-> 1800])
         @@ ("meta-description" :> [score |-> 0]) }

\* every scorecard: categories and audits each present or absent
ScoreCards ==
    {EmptyDict}
    \cup {[categories |-> c] : c \in ToolCategoriesDicts}
    \cup {[audits |-> a] : a \in ToolAuditsDicts}
    \cup {[categories |-> c, audits |-> a] :
             c \in ToolCategoriesDicts, a \in ToolAuditsDicts}

\* what the heuristic probe measures on the page
Pages ==
    [load_time : {k * 500 : k \in 0..MaxLoadSteps},
     has_title : BOOLEAN,
     has_meta_description : BOOLEAN,
     h1_count : 0..MaxH1,
     img_without_alt : 0..MaxAlt]

-----------------------------------------------------------------------------
(* run_lighthouse_analysis: building the result *)

CategoryScoreDefaultOne(categories, name) ==
    Get(Get(categories, name, EmptyDict), "score", 100)

\* categories.get(name, {}).get('score', 0)
CategoryScore(categories, name) == Get(Get(categories, name, EmptyDict), "score", 0)

\* the dict returned by the full and the reduced probe
ProbeResult(lighthouse_data) ==
    LET categories == Get(lighthouse_data, "categories", EmptyDict)
        audits == Get(lighthouse_data, "audits", EmptyDict)
    IN [performance |-> CategoryScore(categories, "performance"),
        accessibility |-> CategoryScore(categories, "accessibility"),
        best_practices |-> CategoryScore(categories, "best-practices"),
        seo |-> CategoryScore(categories, "seo"),
        categories |-> categories,
        audits |-> audits]

Unclamped(x) == x

\* max(0, min(1, x))
Clamp01(x) == Max(0, Min(100, x))

\* max(0, x)
ClampLow(x) == Max(0, x)

BasicSeoScoreWithoutH1(page) ==
    LET s0 == 100
        s1 == IF ~page.has_title THEN s0 - 30 ELSE s0
        s2 == IF ~page.has_meta_description THEN s1 - 20 ELSE s1
    IN s2

\* seo_score of the heuristic probe
BasicSeoScore(page) ==
    LET s0 == 100
        s1 == IF ~page.has_title THEN s0 - 30 ELSE s0
        s2 == IF ~page.has_meta_description THEN s1 - 20 ELSE s1
        s3 == IF page.h1_count = 0 THEN s2 - 20 ELSE s2
        s4 == IF page.h1_count > 1 THEN s3 - 10 ELSE s3
    IN s4

\* the dict returned by get_basic_page_metrics when nothing raises
get_basic_page_metrics(page, is_https) ==
    LET load_time == page.load_time
        performance_score == Clamp01((5000 - load_time) \div 50)
        seo_score == BasicSeoScore(page)
        accessibility_score == ClampLow(100 - page.img_without_alt * 10)
        best_practices_score == IF is_https THEN 90 ELSE 50
    IN [performance |-> performance_score,
        accessibility |-> accessibility_score,
        best_practices |-> best_practices_score,
        seo |-> seo_score,
        categories |->
            [performance |-> [score |-> performance_score,
                              title |-> "Performance (Basic Analysis)"],
             accessibility |-> [score |-> accessibility_score,
                                title |-> "Accessibility (Basic Analysis)"],
             seo |-> [score |-> seo_score, title |-> "SEO (Basic Analysis)"]]
            @@ ("best-practices" :> [score |-> best_practices_score,
                                     title |-> "Best Practices (Basic Analysis)"]),
        audits |->
            ("first-contentful-paint" :>
                [numericValue |-> (load_time * 6) \div 10,
                 title |-> "First Contentful Paint (Estimated)"])
            @@ ("speed-index" :>
                [numericValue |-> (load_time * 8) \div 10,
                 title |-> "Speed Index (Estimated)"])
            @@ ("largest-contentful-paint" :>
                [numericValue |-> (load_time * 9) \div 10,
                 title |-> "Largest Contentful Paint (Estimated)"]),
        method |-> "basic_analysis"]

StaticFallbackSkewed ==
    [performance |-> 60,
     accessibility |-> 70,
     best_practices |-> 60,
     seo |-> 50,
     categories |->
         [performance |-> [score |-> 60, title |-> "Performance (Fallback)"],
          accessibility |-> [score |-> 70, title |-> "Accessibility (Fallback)"],
          seo |-> [score |-> 50, title |-> "SEO (Fallback)"]]
         @@ ("best-practices" :> [score |-> 60, title |-> "Best Practices (Fallback)"]),
     audits |->
         ("first-contentful-paint" :>
             [numericValue |-> 3000, title |-> "First Contentful Paint (Estimated)"])
         @@ ("speed-index" :>
             [numericValue |-> 4000, title |-> "Speed Index (Estimated)"])
         @@ ("largest-contentful-paint" :>
             [numericValue |-> 5000, title |-> "Largest Contentful Paint (Estimated)"]),
     error |-> "Lighthouse analysis unavailable - using estimated values"]

\* the last-resort dict of run_lighthouse_analysis
StaticFallback ==
    [performance |-> 50,
     accessibility |-> 70,
     best_practices |-> 60,
     seo |-> 50,
     categories |->
         [performance |-> [score |-> 50, title |-> "Performance (Fallback)"],
          accessibility |-> [score |-> 70, title |-> "Accessibility (Fallback)"],
          seo |-> [score |-> 50, title |-> "SEO (Fallback)"]]
         @@ ("best-practices" :> [score |-> 60, title |-> "Best Practices (Fallback)"]),
     audits |->
         ("first-contentful-paint" :>
             [numericValue |-> 3000, title |-> "First Contentful Paint (Estimated)"])
         @@ ("speed-index" :>
             [numericValue |-> 4000, title |-> "Speed Index (Estimated)"])
         @@ ("largest-contentful-paint" :>
             [numericValue |-> 5000, title |-> "Largest Contentful Paint (Estimated)"]),
     error |-> "Lighthouse analysis unavailable - using estimated values"]

-----------------------------------------------------------------------------
(* run_lighthouse_analysis: control flow *)

Tiers == <<"full", "reduced", "heuristic", "static">>

TierSet == {"full", "reduced", "heuristic", "static"}

TierAfterSkipping(t) ==
    CASE t = "full" -> "heuristic"
      [] t = "reduced" -> "heuristic"
      [] OTHER -> "static"

\* the tier whose code follows the failure of tier t
TierAfter(t) ==
    CASE t = "full" -> "reduced"
      [] t = "reduced" -> "heuristic"
      [] OTHER -> "static"

\* os.path.exists(temp_file) and os.unlink(temp_file)
Cleanup(tf) == IF tf = "present" THEN "absent" ELSE tf

\* a probe returns dict r as the result of tier t
Return(t, r) ==
    /\ rl_pc' = "returned"
    /\ lighthouse_result' = r
    /\ tier_outcome' = [tier_outcome EXCEPT ![t] = "ok"]
    /\ tiers_started' = tiers_started

\* tier `failed` has failed with the temp file in state tf, after the tiers in
\* `started` were entered: control passes to the next tier
Advance(failed, tf, started) ==
    LET t == TierAfter(failed)
        oc == [tier_outcome EXCEPT ![failed] = "failed"]
    IN /\ temp_file' = tf
       /\ tiers_started' = Append(started, t)
       /\ CASE t = "reduced" /\ tf = "unbound" ->
                 \* building simple_cmd raises NameError, which is caught;
                 \* the finally clause reads temp_file again and raises
                 /\ rl_pc' = "raised"
                 /\ tier_outcome' = [oc EXCEPT ![t] = "failed"]
                 /\ lighthouse_result' = lighthouse_result
            [] t = "reduced" ->
                 /\ rl_pc' = "reduced_spawn"
                 /\ tier_outcome' = oc
                 /\ lighthouse_result' = lighthouse_result
            [] t = "heuristic" ->
                 /\ rl_pc' = "heuristic"
                 /\ tier_outcome' = oc
                 /\ lighthouse_result' = lighthouse_result
            [] OTHER ->
                 /\ rl_pc' = "returned"
                 /\ tier_outcome' = [oc EXCEPT ![t] = "ok"]
                 /\ lighthouse_result' = StaticFallback

\* tempfile.NamedTemporaryFile(delete=False): the first statement of the full tier
RunLighthouse_CreateTempFile ==
    /\ rl_pc = "start"
    /\ \/ /\ temp_file' = "present"
          /\ rl_pc' = "full_spawn"
          /\ tiers_started' = Append(tiers_started, "full")
          /\ UNCHANGED <<tier_outcome, lighthouse_result>>
       \/ \* it raises: the exception handler runs with temp_file unbound
          Advance("full", "unbound", Append(tiers_started, "full"))
    /\ UNCHANGED <<url_https, probed_page, process_full, process_reduced, notRunner>>

\* await asyncio.create_subprocess_exec(*cmd) of the full probe
RunLighthouse_FullSpawn ==
    /\ rl_pc = "full_spawn"
    /\ \/ /\ process_full' = "running"
          /\ rl_pc' = "full_wait"
          /\ UNCHANGED <<temp_file, lighthouse_result, tiers_started, tier_outcome>>
       \/ /\ process_full' = process_full
          /\ Advance("full", temp_file, tiers_started)
    /\ UNCHANGED <<url_https, probed_page, process_reduced, notRunner>>

RunLighthouse_FullWaitLenient(cards) ==
    /\ rl_pc = "full_wait"
    /\ \/ /\ process_full' = "killed"
          /\ Advance("full", temp_file, tiers_started)
       \/ \* returncode != 0 is not looked at: the output is returned
          /\ process_full' = "exited"
          /\ temp_file' = temp_file
          /\ \E lighthouse_data \in cards : Return("full", ProbeResult(lighthouse_data))
       \/ /\ process_full' = "exited"
          /\ Advance("full", Cleanup(temp_file), tiers_started)
       \/ /\ process_full' = "exited"
          /\ temp_file' = Cleanup(temp_file)
          /\ \E lighthouse_data \in cards : Return("full", ProbeResult(lighthouse_data))
    /\ UNCHANGED <<url_https, probed_page, process_reduced, notRunner>>

\* await asyncio.wait_for(process.communicate(), 60.0) and what follows it
RunLighthouse_FullWait(cards) ==
    /\ rl_pc = "full_wait"
    /\ \/ \* timeout: process.kill(), raise
          /\ process_full' = "killed"
          /\ Advance("full", temp_file, tiers_started)
       \/ \* returncode != 0: raise
          /\ process_full' = "exited"
          /\ Advance("full", temp_file, tiers_started)
       \/ \* returncode 0, the output cannot be read or parsed; finally unlinks
          /\ process_full' = "exited"
          /\ Advance("full", Cleanup(temp_file), tiers_started)
       \/ \* returncode 0, a scorecard is read; finally unlinks; return
          /\ process_full' = "exited"
          /\ temp_file' = Cleanup(temp_file)
          /\ \E lighthouse_data \in cards : Return("full", ProbeResult(lighthouse_data))
    /\ UNCHANGED <<url_https, probed_page, process_reduced, notRunner>>

\* await asyncio.create_subprocess_exec(*simple_cmd) of the reduced probe
RunLighthouse_ReducedSpawn ==
    /\ rl_pc = "reduced_spawn"
    /\ \/ /\ process_reduced' = "running"
          /\ rl_pc' = "reduced_wait"
          /\ UNCHANGED <<temp_file, lighthouse_result, tiers_started, tier_outcome>>
       \/ /\ process_reduced' = process_reduced
          /\ Advance("reduced", Cleanup(temp_file), tiers_started)
    /\ UNCHANGED <<url_https, probed_page, process_full, notRunner>>

\* await asyncio.wait_for(process.communicate(), 45.0) and what follows it
RunLighthouse_ReducedWait(cards) ==
    /\ rl_pc = "reduced_wait"
    /\ \/ \* timeout: caught, the subprocess is left running
          /\ process_reduced' = "running"
          /\ Advance("reduced", Cleanup(temp_file), tiers_started)
       \/ \* returncode != 0: no return, finally unlinks
          /\ process_reduced' = "exited"
          /\ Advance("reduced", Cleanup(temp_file), tiers_started)
       \/ \* returncode 0, the output cannot be read or parsed
          /\ process_reduced' = "exited"
          /\ Advance("reduced", Cleanup("present"), tiers_started)
       \/ \* returncode 0, a scorecard is read; return, finally unlinks
          /\ process_reduced' = "exited"
          /\ temp_file' = Cleanup("present")
          /\ \E lighthouse_data \in cards : Return("reduced", ProbeResult(lighthouse_data))
    /\ UNCHANGED <<url_https, probed_page, process_full, notRunner>>

\* return await get_basic_page_metrics(url), or the static dict when it raises
RunLighthouse_Heuristic(pages) ==
    /\ rl_pc = "heuristic"
    /\ \/ /\ temp_file' = temp_file
          /\ \E page \in pages :
                /\ probed_page' = page
                /\ Return("heuristic", get_basic_page_metrics(page, url_https))
       \/ /\ probed_page' = probed_page
          /\ Advance("heuristic", temp_file, tiers_started)
    /\ UNCHANGED <<url_https, process_full, process_reduced, notRunner>>

-----------------------------------------------------------------------------
(* text: a str is a sequence of one-character strings, a page is what the
   parser finds in the fetched document *)

LowerLetters == <<"a", "b", "c", "d", "e", "f", "g", "h", "i", "j", "k", "l", "m", "n",
                  "o", "p", "q", "r", "s", "t", "u", "v", "w", "x", "y", "z">>

UpperLetters == <<"A", "B", "C", "D", "E", "F", "G", "H", "I", "J", "K", "L", "M", "N",
                  "O", "P", "Q", "R", "S", "T", "U", "V", "W", "X", "Y", "Z">>

Digits == {"0", "1", "2", "3", "4", "5", "6", "7", "8", "9"}

\* [a-zA-Z]
IsLetter(c) ==
    \E i \in 1..Len(LowerLetters) : c = LowerLetters[i] \/ c = UpperLetters[i]

\* \w on ASCII text: what \b separates from the rest
IsWordChar(c) == IsLetter(c) \/ c \in Digits \/ c = "_"

LowerChar(c) ==
    IF \E i \in 1..Len(UpperLetters) : c = UpperLetters[i]
    THEN LowerLetters[CHOOSE i \in 1..Len(UpperLetters) : c = UpperLetters[i]]
    ELSE c

\* str.lower()
lower(text) == <<>> \o [i \in 1..Len(text) |-> LowerChar(text[i])]

\* str.startswith(prefix)
startswith(text, prefix) ==
    /\ Len(text) >= Len(prefix)
    /\ SubSeq(text, 1, Len(prefix)) = prefix

\* sub in text
contains(text, sub) ==
    \E i \in 1..(Len(text) - Len(sub) + 1) : SubSeq(text, i, i + Len(sub) - 1) = sub

\* seq[:k]
Prefix(seq, k) == SubSeq(seq, 1, Min(k, Len(seq)))

\* len(text.split()): the maximal runs of non-blank characters
word_count(text) ==
    Cardinality({ i \in 1..Len(text) : text[i] # " " /\ (i = 1 \/ text[i - 1] = " ") })

\* re.findall(r'\b[a-zA-Z]{3,}\b', text): the maximal runs of letters that
\* are at least three long and have no word character on either side
findall_words(text) ==
    LET n == Len(text)
        letter == { i \in 1..n : IsLetter(text[i]) }
        wordchar == { i \in 1..n : IsWordChar(text[i]) }
        starts == { i \in letter : (i - 1) \notin letter }
        EndOf(i) == CHOOSE j \in i..n : (i..j) \subseteq letter /\ (j + 1) \notin letter
        runs == { <<i, EndOf(i)>> : i \in starts }
        matches == { r \in runs : /\ (r[1] - 1) \notin wordchar
                                  /\ (r[2] + 1) \notin wordchar
                                  /\ r[2] - r[1] + 1 >= 3 }
        placed == { <<1 + Cardinality({ q \in matches : q[1] < r[1] }),
                      SubSeq(text, r[1], r[2])>> : r \in matches }
    IN <<>> \o [k \in 1..Cardinality(matches) |-> (CHOOSE e \in placed : e[1] = k)[2]]

\* index of the first character at or after `from` that is in `stops`,
\* Len(text) + 1 when there is none
IndexOfAny(text, stops, from) ==
    LET hits == { i \in from..Len(text) : text[i] \in stops }
    IN IF hits = {} THEN Len(text) + 1 ELSE CHOOSE i \in hits : \A j \in hits : i <= j

\* urlparse(url).scheme
urlparse_scheme(url) ==
    LET colon == IndexOfAny(url, {":"}, 1)
    IN IF /\ 1 < colon
          /\ colon <= Len(url)
          /\ IsLetter(url[1])
          /\ \A j \in 1..(colon - 1) :
                IsLetter(url[j]) \/ url[j] \in Digits \cup {"+", "-", "."}
       THEN lower(SubSeq(url, 1, colon - 1))
       ELSE <<>>

\* urlparse(url).netloc
urlparse_netloc(url) ==
    LET scheme == urlparse_scheme(url)
        rest == IF scheme = <<>> THEN url ELSE SubSeq(url, Len(scheme) + 2, Len(url))
    IN IF startswith(rest, <<"/", "/">>)
       THEN SubSeq(rest, 3, IndexOfAny(rest, {"/", "?", "#"}, 3) - 1)
       ELSE <<>>

\* urlparse(url).hostname for a netloc without user information
urlparse_hostname(url) ==
    LET netloc == urlparse_netloc(url)
    IN lower(SubSeq(netloc, 1, IndexOfAny(netloc, {":"}, 1) - 1))

\* number of orders in which the interpreter is taken to iterate over a set
MaxRotation == 2

SetOrders == 0..MaxRotation

\* list(set(items)): the distinct items, in an order the interpreter chooses;
\* the orders modelled are the rotations of the order of first insertion
list_of_set(items, rotation) ==
    LET n == Len(items)
        firsts == { i \in 1..n : \A j \in 1..(i - 1) : items[j] # items[i] }
        m == Cardinality(firsts)
        placed == { <<((Cardinality({ j \in firsts : j < i }) + rotation) % m) + 1,
                      items[i]>> : i \in firsts }
    IN <<>> \o [k \in 1..m |-> (CHOOSE e \in placed : e[1] = k)[2]]

\* the page https://a.io serves
HomePage ==
    [url |-> <<"h", "t", "t", "p", "s", ":", "/", "/", "a", ".", "i", "o">>,
     title |-> <<>>,
     meta_description |-> <<>>,
     text |-> <<"S", "E", "O", " ", "t", "o", "o", "l">>,
     anchors |-> << <<"h", "t", "t", "p", "s", ":", "/", "/", "b", ".", "i", "o">> >>,
     headings |-> [h1 |-> <<"SEO tool">>, h2 |-> <<>>, h3 |-> <<>>]]

RunnerIdle ==
    /\ temp_file = "unbound"
    /\ process_full = "none"
    /\ process_reduced = "none"
    /\ probed_page = EmptyDict
    /\ lighthouse_result = EmptyDict
    /\ tiers_started = <<>>
    /\ tier_outcome = [t \in TierSet |-> "none"]

\* run_lighthouse_analysis not called
RunnerUnused ==
    /\ url_https = TRUE
    /\ rl_pc = "idle"
    /\ RunnerIdle

\* generate_responsive_screenshots not called
ShotsIdle ==
    /\ shot_pc = "idle"
    /\ shot_idx = 1
    /\ shot_browser = "none"
    /\ screenshots = <<>>
    /\ shot_failed = {}

\* calculate_performance_metrics not called
AggregateIdle ==
    /\ agg_pc = "idle"
    /\ agg_score = EmptyDict
    /\ agg_counts = <<0, 0>>
    /\ agg_side = 0
    /\ agg_metrics = EmptyDict

\* analyze_keywords and analyze_backlinks not called
ScanIdle ==
    /\ kw_pc = "idle"
    /\ keywords = <<>>
    /\ bl_pc = "idle"
    /\ backlinks = <<>>
    /\ site_page = HomePage
    /\ kw_fetch = "none"
    /\ bl_fetch = "none"

\* analyze_competitors not called
CompetitorsIdle ==
    /\ cmp_pc = "idle"
    /\ cmp_request = EmptyDict
    /\ primary_analysis = EmptyDict
    /\ competitor_data = <<>>
    /\ cmp_failed = {}
    /\ cmp_scanning = {}
    /\ cmp_peak = 0
    /\ comparison_insights = EmptyDict
    /\ competitive_keywords = <<>>
    /\ content_gaps = <<>>
    /\ cmp_response = EmptyDict
    /\ db_competitor_analyses = {}

\* largest number of analyze requests in progress at the same time
MaxRequests == 2

Requests == 1..MaxRequests

\* no audit of a concurrent request has been started
RequestsIdle ==
    /\ audit_runs = [r \in Requests |-> [pc |-> "idle", temp_file |-> 0, port |-> 0]]
    /\ tmp_issued = 0

\* generate_structured_ai_suggestions not called
SuggestIdle ==
    /\ sug_pc = "idle"
    /\ ai_suggestions = EmptyDict
    /\ sug_calls = 0
    /\ sug_failed = FALSE

\* no request to the stored reports made, no id drawn
StoreIdle ==
    /\ store_clock = 0
    /\ store_ids = 0
    /\ store_response = EmptyDict
    /\ store_inserted = EmptyDict

\* no request being handled
HandlerIdle ==
    /\ an_pc = "idle"
    /\ gemini_key = TRUE
    /\ issues = EmptyDict
    /\ performance_metrics = EmptyDict
    /\ db_analyses = {}
    /\ response = EmptyDict
    /\ hard_failure = FALSE

InitRunner ==
    /\ url_https \in BOOLEAN
    /\ rl_pc = "start"
    /\ RunnerIdle
    /\ ShotsIdle
    /\ AggregateIdle
    /\ ScanIdle
    /\ CompetitorsIdle
    /\ RequestsIdle
    /\ SuggestIdle
    /\ HandlerIdle
    /\ StoreIdle

NextRunner ==
    \/ RunLighthouse_CreateTempFile
    \/ RunLighthouse_FullSpawn
    \/ RunLighthouse_FullWait(ScoreCards)
    \/ RunLighthouse_ReducedSpawn
    \/ RunLighthouse_ReducedWait(ScoreCards)
    \/ RunLighthouse_Heuristic(Pages)

SpecRunner == InitRunner /\ [][NextRunner]_vars



-----------------------------------------------------------------------------
(* generate_responsive_screenshots *)

screen_sizes ==
    << [name |-> "Mobile", width |-> 375, height |-> 667],
       [name |-> "Tablet", width |-> 768, height |-> 1024],
       [name |-> "Laptop", width |-> 1366, height |-> 768],
       [name |-> "Desktop", width |-> 1920, height |-> 1080] >>

\* the entry appended for a viewport that was captured
CapturedEntry(size) ==
    [device |-> size.name,
     width |-> ToString(size.width),
     height |-> ToString(size.height),
     screenshot |-> "data:image/png;base64,iVBORw0KGgo="]

\* an error entry that still carries image data
ErrorEntryWithImage(size, message) ==
    [device |-> size.name,
     width |-> ToString(size.width),
     height |-> ToString(size.height),
     screenshot |-> "data:image/png;base64,iVBORw0KGgo=",
     error |-> message]

\* the entry appended for a viewport with an error message
ErrorEntry(size, message) ==
    [device |-> size.name,
     width |-> ToString(size.width),
     height |-> ToString(size.height),
     screenshot |-> "",
     error |-> message]

\* for size in screen_sizes: screenshots.append({... "error": message})
RECURSIVE AppendErrorEntries(_, _, _)
AppendErrorEntries(list, i, message) ==
    IF i > Len(screen_sizes)
    THEN list
    ELSE AppendErrorEntries(Append(list, ErrorEntry(screen_sizes[i], message)),
                            i + 1, message)

\* async with async_playwright() as p: entering the context
Screenshots_StartPlaywright ==
    /\ shot_pc = "start"
    /\ \/ /\ shot_pc' = "launch"
          /\ UNCHANGED screenshots
       \/ \* except Exception as playwright_error
          /\ screenshots' = AppendErrorEntries(screenshots, 1,
                                "Playwright error: driver failed to start")
          /\ shot_pc' = "returned"
    /\ UNCHANGED <<shot_idx, shot_browser, shot_failed, notShots>>

\* browser = await p.chromium.launch(headless=True); page = await browser.new_page()
Screenshots_Launch ==
    /\ shot_pc = "launch"
    /\ \/ /\ shot_browser' = "open"
          /\ shot_pc' = "capture"
          /\ UNCHANGED screenshots
       \/ \* launch raises: except Exception as browser_error
          /\ shot_browser' = "none"
          /\ screenshots' = AppendErrorEntries(screenshots, 1,
                                "Browser launch failed: executable not found")
          /\ shot_pc' = "exit"
       \/ \* new_page raises: same handler, the browser stays open
          /\ shot_browser' = "open"
          /\ screenshots' = AppendErrorEntries(screenshots, 1,
                                "Browser launch failed: page could not be created")
          /\ shot_pc' = "exit"
    /\ UNCHANGED <<shot_idx, shot_failed, notShots>>

\* one pass of the loop body: set_viewport_size, goto, screenshot
Screenshots_Capture ==
    /\ shot_pc = "capture"
    /\ shot_idx <= Len(screen_sizes)
    /\ \/ /\ screenshots' = Append(screenshots, CapturedEntry(screen_sizes[shot_idx]))
          /\ UNCHANGED shot_failed
       \/ \* set_viewport_size, goto or screenshot raises: except Exception as e
          /\ screenshots' = Append(screenshots,
                                   ErrorEntry(screen_sizes[shot_idx],
                                              "Timeout 30000ms exceeded"))
          /\ shot_failed' = shot_failed \cup {shot_idx}
    /\ shot_idx' = shot_idx + 1
    /\ shot_pc' = IF shot_idx = Len(screen_sizes) THEN "close" ELSE "capture"
    /\ UNCHANGED <<shot_browser, notShots>>

\* await browser.close() after the loop
Screenshots_Close ==
    /\ shot_pc = "close"
    /\ \/ /\ shot_browser' = "closed"
          /\ UNCHANGED screenshots
       \/ \* close raises: except Exception as browser_error
          /\ shot_browser' = "open"
          /\ screenshots' = AppendErrorEntries(screenshots, 1,
                                "Browser launch failed: Target closed")
    /\ shot_pc' = "exit"
    /\ UNCHANGED <<shot_idx, shot_failed, notShots>>

\* leaving the async with block, then return screenshots
Screenshots_ExitPlaywright ==
    /\ shot_pc = "exit"
    /\ shot_browser' = IF shot_browser = "open" THEN "closed" ELSE shot_browser
    /\ \/ UNCHANGED screenshots
       \/ \* the exit raises: except Exception as playwright_error
          screenshots' = AppendErrorEntries(screenshots, 1,
                                "Playwright error: connection closed")
    /\ shot_pc' = "returned"
    /\ UNCHANGED <<shot_idx, shot_failed, notShots>>

InitShots ==
    /\ RunnerUnused
    /\ shot_pc = "start"
    /\ shot_idx = 1
    /\ shot_browser = "none"
    /\ screenshots = <<>>
    /\ shot_failed = {}
    /\ AggregateIdle
    /\ ScanIdle
    /\ CompetitorsIdle
    /\ RequestsIdle
    /\ SuggestIdle
    /\ HandlerIdle
    /\ StoreIdle

NextShots ==
    \/ Screenshots_StartPlaywright
    \/ Screenshots_Launch
    \/ Screenshots_Capture
    \/ Screenshots_Close
    \/ Screenshots_ExitPlaywright

SpecShots == InitShots /\ [][NextShots]_vars

-----------------------------------------------------------------------------
(* calculate_performance_metrics *)

\* Python computes with doubles. The model keeps every score to the hundredth
\* and, in `side`, on which side of the exact mean of these hundredths the
\* computed double lies (-1 below, 0 on it, 1 above): that decides a comparison
\* with a threshold the exact mean equals, and a rounding tie.
FloatSides == {-1, 0, 1}

TruncateHundredths(total, side) == total \div 4

\* round(overall_score, 2) where overall_score = total / 4 hundredths
RoundHundredths(total, side) ==
    LET q == total \div 4
        r == total % 4
    IN CASE r < 2 -> q
         [] r > 2 -> q + 1
         [] side > 0 -> q + 1
         [] side < 0 -> q
         [] OTHER -> IF q % 2 = 0 THEN q ELSE q + 1

\* overall_score >= threshold, overall_score = total / 4 hundredths
AtLeast(total, side, threshold) ==
    \/ total > 4 * threshold
    \/ total = 4 * threshold /\ side >= 0

calculate_performance_metrics(lighthouse_score, keywords_count, backlinks_count, side) ==
    LET performance == Get(lighthouse_score, "performance", 0)
        accessibility == Get(lighthouse_score, "accessibility", 0)
        best_practices == Get(lighthouse_score, "best_practices", 0)
        seo == Get(lighthouse_score, "seo", 0)
        total == performance + accessibility + best_practices + seo
        grade == IF AtLeast(total, side, 90) THEN "A"
                 ELSE IF AtLeast(total, side, 75) THEN "B"
                 ELSE IF AtLeast(total, side, 60) THEN "C"
                 ELSE IF AtLeast(total, side, 40) THEN "D"
                 ELSE "F"
    IN [overall_score |-> RoundHundredths(total, side),
        grade |-> grade,
        keywords_found |-> keywords_count,
        backlinks_found |-> backlinks_count,
        performance_score |-> performance,
        accessibility_score |-> accessibility,
        best_practices_score |-> best_practices,
        seo_score |-> seo]

\* category scores given to calculate_performance_metrics
AggregateScores == {0, 40, 60, 75, 89, 90, 100}

\* lighthouse_score: any of the four keys may be absent
AggregateInputs ==
    UNION {[S -> AggregateScores] : S \in SUBSET CategoryKeys}

CalculatePerformanceMetrics ==
    /\ agg_pc = "input"
    /\ agg_metrics' = calculate_performance_metrics(agg_score, agg_counts[1],
                                                     agg_counts[2], agg_side)
    /\ agg_pc' = "done"
    /\ UNCHANGED <<agg_score, agg_counts, agg_side, notAggregate>>

InitAggregate ==
    /\ RunnerUnused
    /\ ShotsIdle
    /\ agg_pc = "input"
    /\ agg_score \in AggregateInputs
    /\ agg_counts \in (0..MaxCount) \X (0..MaxCount)
    /\ agg_side \in FloatSides
    /\ agg_metrics = EmptyDict
    /\ ScanIdle
    /\ CompetitorsIdle
    /\ RequestsIdle
    /\ SuggestIdle
    /\ HandlerIdle
    /\ StoreIdle

NextAggregate == CalculatePerformanceMetrics

SpecAggregate == InitAggregate /\ [][NextAggregate]_vars

-----------------------------------------------------------------------------
(* Issue extraction: extract_performance_issues, extract_seo_issues,          *)
(* extract_accessibility_issues, extract_best_practices_issues                *)
(* numericValue is in ms, that of cumulative-layout-shift in hundredths.      *)

\* str() of a float given in hundredths: 25 is "0.25", 30 is "0.3"
FormatHundredths(v) ==
    LET frac == v % 100
    IN ToString(v \div 100) \o "." \o
          (IF frac % 10 = 0
           THEN ToString(frac \div 10)
           ELSE (IF frac < 10 THEN "0" ELSE "") \o ToString(frac))

\* audits.get(metric, {}).get('numericValue', 0)
NumericValue(audits, metric) == Get(Get(audits, metric, EmptyDict), "numericValue", 0)

\* a score lookup whose default is 0
AuditScoreDefaultZero(audits, metric) == Get(Get(audits, metric, EmptyDict), "score", 0)

\* audits.get(metric, {}).get('score', 1)
AuditScore(audits, metric) == Get(Get(audits, metric, EmptyDict), "score", 100)

\* the timing rules in the order in which the static result lists its audits
extract_performance_issues_in_audit_order(lighthouse_score) ==
    LET audits == Get(lighthouse_score, "audits", EmptyDict)
        fcp == NumericValue(audits, "first-contentful-paint")
        lcp == NumericValue(audits, "largest-contentful-paint")
        si == NumericValue(audits, "speed-index")
    IN (IF fcp > 2000
        THEN <<"First Contentful Paint is slow (" \o ToString(fcp) \o "ms)">>
        ELSE <<>>)
       \o (IF si > 3000
           THEN <<"Speed Index is slow (" \o ToString(si) \o "ms)">>
           ELSE <<>>)
       \o (IF lcp > 2500
           THEN <<"Largest Contentful Paint is slow (" \o ToString(lcp) \o "ms)">>
           ELSE <<>>)

extract_performance_issues(lighthouse_score) ==
    LET audits == Get(lighthouse_score, "audits", EmptyDict)
        fcp == NumericValue(audits, "first-contentful-paint")
        lcp == NumericValue(audits, "largest-contentful-paint")
        si == NumericValue(audits, "speed-index")
        cls == NumericValue(audits, "cumulative-layout-shift")
        unused_css == Get(Get(Get(audits, "unused-css-rules", EmptyDict),
                              "details", EmptyDict), "overallSavingsBytes", 0)
        image_optimization == AuditScore(audits, "uses-optimized-images")
    IN (IF fcp > 2000
        THEN <<"First Contentful Paint is slow (" \o ToString(fcp) \o "ms)">>
        ELSE <<>>)
       \o (IF lcp > 2500
           THEN <<"Largest Contentful Paint is slow (" \o ToString(lcp) \o "ms)">>
           ELSE <<>>)
       \o (IF si > 3000
           THEN <<"Speed Index is slow (" \o ToString(si) \o "ms)">>
           ELSE <<>>)
       \o (IF cls > 10
           THEN <<"Cumulative Layout Shift is high (" \o FormatHundredths(cls) \o ")">>
           ELSE <<>>)
       \o (IF unused_css > 10000
           THEN <<"Unused CSS detected - remove unused styles">>
           ELSE <<>>)
       \o (IF image_optimization < 80
           THEN <<"Images are not optimized - compress and serve in modern formats">>
           ELSE <<>>)

\* an extraction that stops after the first rule that fires
ScoreRuleIssuesFirstOnly(lighthouse_score, rules) ==
    LET audits == Get(lighthouse_score, "audits", EmptyDict)
        fired == SelectSeq(rules, LAMBDA r : AuditScore(audits, r.metric) < 100)
    IN [i \in 1..Min(1, Len(fired)) |-> fired[i].message]

\* the messages of the rules "score of metric < 1" that fire, in rule order
ScoreRuleIssues(lighthouse_score, rules) ==
    LET audits == Get(lighthouse_score, "audits", EmptyDict)
        fired == SelectSeq(rules, LAMBDA r : AuditScore(audits, r.metric) < 100)
    IN [i \in 1..Len(fired) |-> fired[i].message]

SeoRules ==
    << [metric |-> "meta-description", message |-> "Missing or poor meta description"],
       [metric |-> "document-title", message |-> "Missing or poor title tag"],
       [metric |-> "heading-order",
        message |-> "Heading elements are not in sequentially-descending order"],
       [metric |-> "image-alt", message |-> "Images missing alt text"],
       [metric |-> "robots-txt", message |-> "robots.txt issues detected"],
       [metric |-> "hreflang", message |-> "hreflang links are not valid"] >>

AccessibilityRules ==
    << [metric |-> "color-contrast",
        message |-> "Background and foreground colors do not have sufficient contrast ratio"],
       [metric |-> "aria-required-attr", message |-> "ARIA attributes are missing or invalid"],
       [metric |-> "label", message |-> "Form elements do not have associated labels"],
       [metric |-> "keyboard-traps", message |-> "Keyboard navigation issues detected"],
       [metric |-> "focus-traps", message |-> "Focus is not trapped within modal dialogs"] >>

BestPracticesRules ==
    << [metric |-> "is-on-https", message |-> "Page is not served over HTTPS"],
       [metric |-> "errors-in-console", message |-> "JavaScript errors detected in console"],
       [metric |-> "deprecations", message |-> "Uses deprecated APIs"],
       [metric |-> "csp-xss", message |-> "Content Security Policy missing or ineffective"] >>

extract_seo_issues(lighthouse_score) == ScoreRuleIssues(lighthouse_score, SeoRules)

extract_accessibility_issues(lighthouse_score) ==
    ScoreRuleIssues(lighthouse_score, AccessibilityRules)

extract_best_practices_issues(lighthouse_score) ==
    ScoreRuleIssues(lighthouse_score, BestPracticesRules)

-----------------------------------------------------------------------------
(* analyze_keywords and analyze_backlinks: no await inside, one step each *)

\* keyword lists of the reports in the store
KeywordLists == { <<>>, <<"seo", "tool", "website">> }

\* stop_words
stop_words ==
    { <<"t", "h", "e">>, <<"a", "n", "d">>, <<"f", "o", "r">>, <<"a", "r", "e">>,
      <<"b", "u", "t">>, <<"n", "o", "t">>, <<"y", "o", "u">>, <<"a", "l", "l">>,
      <<"c", "a", "n">>, <<"h", "a", "d">>, <<"h", "e", "r">>, <<"w", "a", "s">>,
      <<"o", "n", "e">>, <<"o", "u", "r">>, <<"o", "u", "t">>, <<"d", "a", "y">>,
      <<"g", "e", "t">>, <<"h", "a", "s">>, <<"h", "i", "m">>, <<"h", "i", "s">>,
      <<"h", "o", "w">>, <<"m", "a", "n">>, <<"n", "e", "w">>, <<"n", "o", "w">>,
      <<"o", "l", "d">>, <<"s", "e", "e">>, <<"t", "w", "o">>, <<"w", "h", "o">>,
      <<"b", "o", "y">>, <<"d", "i", "d">>, <<"i", "t", "s">>, <<"l", "e", "t">>,
      <<"p", "u", "t">>, <<"s", "a", "y">>, <<"s", "h", "e">>, <<"t", "o", "o">>,
      <<"u", "s", "e">> }

NotStopWord(word) == word \notin stop_words

\* sorted_keywords[:20]
TopKeywords == 20

\* unique_links[:10]
TopBacklinks == 10

\* the keys of keyword_freq in the order of their first occurrence
first_seen_order(keywords_) ==
    LET n == Len(keywords_)
        firsts == { i \in 1..n : \A j \in 1..(i - 1) : keywords_[j] # keywords_[i] }
        placed == { <<1 + Cardinality({ j \in firsts : j < i }), keywords_[i]>> :
                    i \in firsts }
    IN <<>> \o [k \in 1..Cardinality(firsts) |-> (CHOOSE e \in placed : e[1] = k)[2]]

\* the keys of sorted(keyword_freq.items(), key=lambda x: x[1], reverse=True):
\* descending count; the sort is stable, equal counts keep the order of the
\* dict, which is the order of first occurrence
sorted_keywords(keywords_) ==
    LET n == Len(keywords_)
        firsts == { i \in 1..n : \A j \in 1..(i - 1) : keywords_[j] # keywords_[i] }
        counted == { <<i, Cardinality({ j \in 1..n : keywords_[j] = keywords_[i] })>> :
                     i \in firsts }
        placed == { <<1 + Cardinality({ q \in counted :
                                          \/ q[2] > p[2]
                                          \/ q[2] = p[2] /\ q[1] < p[1] }),
                      keywords_[p[1]]>> : p \in counted }
    IN <<>> \o [k \in 1..Cardinality(firsts) |-> (CHOOSE e \in placed : e[1] = k)[2]]

\* f"{title_text} {meta_desc_text} {text_content}"
all_text(page) == page.title \o <<" ">> \o page.meta_description \o <<" ">> \o page.text

\* what analyze_keywords returns when the fetch and the parser succeed
analyze_keywords(page) ==
    LET words == findall_words(lower(all_text(page)))
        keywords_ == SelectSeq(words, NotStopWord)
    IN Prefix(sorted_keywords(keywords_), TopKeywords)

\* what analyze_backlinks returns when the fetch and the parser succeed, the
\* set of the links being iterated in the order `rotation`
analyze_backlinks(page, rotation) ==
    LET netloc == urlparse_netloc(page.url)
        IsLink(href) == startswith(href, <<"h", "t", "t", "p">>) /\ ~contains(href, netloc)
        links == SelectSeq(page.anchors, IsLink)
    IN Prefix(list_of_set(links, rotation), TopBacklinks)

\* str(e) of what requests.get or the parser raises
FetchErrors == {"timed out"}

\* a scan that hands the text of the exception to its caller
ScanFailedWithText(e) == <<e>>

\* except Exception as e: print(...); return []
ScanFailed(e) == <<>>

AnalyzeKeywords ==
    /\ kw_pc = "start"
    /\ \/ /\ kw_fetch' = "ok"
          /\ keywords' = analyze_keywords(site_page)
       \/ \* requests.get or the parser raises
          /\ kw_fetch' = "failed"
          /\ \E e \in FetchErrors : keywords' = ScanFailed(e)
    /\ kw_pc' = "returned"
    /\ UNCHANGED <<bl_pc, backlinks, bl_fetch, site_page, notScan>>

AnalyzeBacklinks ==
    /\ bl_pc = "start"
    /\ \/ /\ bl_fetch' = "ok"
          /\ \E rotation \in SetOrders :
                backlinks' = analyze_backlinks(site_page, rotation)
       \/ \* requests.get or the parser raises
          /\ bl_fetch' = "failed"
          /\ \E e \in FetchErrors : backlinks' = ScanFailed(e)
    /\ bl_pc' = "returned"
    /\ UNCHANGED <<kw_pc, keywords, kw_fetch, site_page, notScan>>

-----------------------------------------------------------------------------
(* generate_structured_ai_suggestions *)

SuggestionOrder == <<"performance", "seo", "accessibility", "best_practices">>

\* placeholders that carry no message
PlaceholdersWithoutText(message) ==
    [performance |-> [suggestions |-> <<>>, priority |-> "high"],
     seo |-> [suggestions |-> <<>>, priority |-> "high"],
     accessibility |-> [suggestions |-> <<>>, priority |-> "medium"],
     best_practices |-> [suggestions |-> <<>>, priority |-> "medium"]]

\* the four dicts returned when no text can be generated
Placeholders(message) ==
    [performance |-> [suggestions |-> <<message>>, priority |-> "high"],
     seo |-> [suggestions |-> <<message>>, priority |-> "high"],
     accessibility |-> [suggestions |-> <<message>>, priority |-> "medium"],
     best_practices |-> [suggestions |-> <<message>>, priority |-> "medium"]]

\* "high" | "medium" | "low" from the category's current score
Priority(category, score) ==
    CASE category = "performance" -> IF score < 70 THEN "high" ELSE "medium"
      [] category = "seo" -> IF score < 80 THEN "high" ELSE "medium"
      [] OTHER -> IF score < 80 THEN "medium" ELSE "low"

\* answers of the text-completion service, as lines: kind and stripped text
ServiceResponses ==
    { << [kind |-> "heading", text |-> "# Recommendations"],
         [kind |-> "text", text |-> "1. Compress and lazy-load images"],
         [kind |-> "blank", text |-> ""],
         [kind |-> "text", text |-> "2. Add a meta description"] >> }

\* the stripped lines that are neither empty nor headings
SuggestionLines(service_response) ==
    LET kept == SelectSeq(service_response, LAMBDA l : l.kind = "text")
    IN [i \in 1..Len(kept) |-> kept[i].text]

\* the entry stored for one category after its call returned
SuggestionEntry(category, service_response, lighthouse_score, category_issues) ==
    [suggestions |-> SuggestionLines(service_response),
     priority |-> Priority(category, Get(lighthouse_score, category, 0)),
     current_score |-> Get(lighthouse_score, category, 0),
     issues |-> category_issues]

\* the key check and LlmChat(...).with_model(...)
Suggest_Begin ==
    /\ sug_pc = "begin"
    /\ \/ /\ ~gemini_key
          /\ ai_suggestions' =
                Placeholders("AI suggestions unavailable: Gemini API key not configured")
          /\ sug_pc' = "returned"
          /\ UNCHANGED sug_failed
       \/ /\ gemini_key
          /\ ai_suggestions' = EmptyDict
          /\ sug_pc' = SuggestionOrder[1]
          /\ UNCHANGED sug_failed
       \/ \* the chat object cannot be created: except Exception as e
          /\ gemini_key
          /\ ai_suggestions' =
                Placeholders("AI suggestions unavailable: chat initialisation failed")
          /\ sug_pc' = "returned"
          /\ sug_failed' = TRUE
    /\ UNCHANGED <<sug_calls, notSuggest>>

\* Suggest_Call keeping, after a failed call, the entries already generated
Suggest_CallKeeping(i) ==
    LET category == SuggestionOrder[i]
    IN /\ sug_pc = category
       /\ \/ \E service_response \in ServiceResponses :
                /\ ai_suggestions' =
                      (category :> SuggestionEntry(category, service_response,
                                                   lighthouse_result,
                                                   issues[category]))
                      @@ ai_suggestions
                /\ sug_pc' = IF i < Len(SuggestionOrder)
                             THEN SuggestionOrder[i + 1]
                             ELSE "returned"
                /\ UNCHANGED sug_failed
          \/ /\ ai_suggestions' =
                   ai_suggestions
                      @@ Placeholders("AI suggestions unavailable: service error")
             /\ sug_pc' = "returned"
             /\ sug_failed' = TRUE
       /\ sug_calls' = sug_calls + 1
       /\ UNCHANGED notSuggest

\* await chat.send_message(...) for category SuggestionOrder[i]
Suggest_Call(i) ==
    LET category == SuggestionOrder[i]
    IN /\ sug_pc = category
       /\ \/ \E service_response \in ServiceResponses :
                /\ ai_suggestions' =
                      (category :> SuggestionEntry(category, service_response,
                                                   lighthouse_result,
                                                   issues[category]))
                      @@ ai_suggestions
                /\ sug_pc' = IF i < Len(SuggestionOrder)
                             THEN SuggestionOrder[i + 1]
                             ELSE "returned"
                /\ UNCHANGED sug_failed
          \/ \* the call raises: except Exception as e
             /\ ai_suggestions' =
                   Placeholders("AI suggestions unavailable: service error")
             /\ sug_pc' = "returned"
             /\ sug_failed' = TRUE
       /\ sug_calls' = sug_calls + 1
       /\ UNCHANGED notSuggest

-----------------------------------------------------------------------------
(* analyze_website: POST /api/analyze *)

\* scorecards and pages of the analysed site in the handler's runs
SiteScoreCards ==
    { EmptyDict,
      [categories |->
           [performance |-> [score |-> 50], accessibility |-> [score |-> 100],
            seo |-> [score |-> 100]]
           @@ ("best-practices" :> [score |-> 100]),
       audits |-> ("first-contentful-paint" :> [numericValue |-> 2500])
                    @@ ("meta-description" :> [score |-> 0])] }

SitePages ==
    { [load_time |-> 1000, has_title |-> TRUE, has_meta_description |-> TRUE,
       h1_count |-> 1, img_without_alt |-> 0],
      [load_time |-> 6500, has_title |-> FALSE, has_meta_description |-> FALSE,
       h1_count |-> 0, img_without_alt |-> 11] }

\* analysis_result: the document handed to insert_one; the response body has
\* the same fields
Document(analysis_id, created_at, parts) ==
    [id |-> analysis_id,
     lighthouse_score |-> parts.lighthouse_score,
     screenshots |-> parts.screenshots,
     ai_suggestions |-> parts.ai_suggestions,
     keywords |-> parts.keywords,
     backlinks |-> parts.backlinks,
     performance_metrics |-> parts.performance_metrics,
     performance_issues |-> parts.issues["performance"],
     seo_issues |-> parts.issues["seo"],
     accessibility_issues |-> parts.issues["accessibility"],
     best_practices_issues |-> parts.issues["best_practices"],
     created_at |-> created_at]

\* the document of the request in progress: id from uuid4, created_at from utcnow
AnalysisResult ==
    Document(store_ids + 1, store_clock,
             [lighthouse_score |-> lighthouse_result,
              screenshots |-> screenshots,
              ai_suggestions |-> ai_suggestions,
              keywords |-> keywords,
              backlinks |-> backlinks,
              performance_metrics |-> performance_metrics,
              issues |-> issues])

\* raise HTTPException(status_code=500, detail=f"Analysis failed: {str(e)}")
AnalysisFailed(reason) ==
    [status |-> 500, detail |-> <<"Analysis failed: ", reason>>]

\* the four asyncio.create_task calls
Analyze_CreateTasks ==
    /\ an_pc = "start"
    /\ rl_pc' = "start"
    /\ shot_pc' = "start"
    /\ kw_pc' = "start"
    /\ bl_pc' = "start"
    /\ an_pc' = "await_lighthouse"
    /\ UNCHANGED <<url_https, temp_file, process_full, process_reduced, probed_page,
                   lighthouse_result, tiers_started, tier_outcome,
                   shot_idx, shot_browser, screenshots, keywords, backlinks,
                   gemini_key, issues, performance_metrics, db_analyses, response,
                   hard_failure, shot_failed, site_page, kw_fetch, bl_fetch,
                   aggVars, cmpVars, reqVars, sugVars, storeVars>>

\* lighthouse_score = await lighthouse_task
Analyze_AwaitLighthouse ==
    /\ an_pc = "await_lighthouse"
    /\ \/ /\ rl_pc = "returned"
          /\ an_pc' = "await_screenshots"
          /\ UNCHANGED response
       \/ \* the task raised: except Exception as e
          /\ rl_pc = "raised"
          /\ response' = AnalysisFailed("local variable 'temp_file' referenced before assignment")
          /\ an_pc' = "responded"
    /\ UNCHANGED <<gemini_key, issues, performance_metrics, db_analyses, hard_failure,
                   rlVars, shotVars, aggVars, scanVars, cmpVars, reqVars, sugVars, storeVars>>

\* screenshots = await screenshots_task
Analyze_AwaitScreenshots ==
    /\ an_pc = "await_screenshots"
    /\ shot_pc = "returned"
    /\ an_pc' = "await_keywords"
    /\ UNCHANGED <<gemini_key, issues, performance_metrics, db_analyses, response,
                   hard_failure, rlVars, shotVars, aggVars, scanVars, cmpVars, reqVars,
                   sugVars, storeVars>>

\* keywords = await keywords_task
Analyze_AwaitKeywords ==
    /\ an_pc = "await_keywords"
    /\ kw_pc = "returned"
    /\ an_pc' = "await_backlinks"
    /\ UNCHANGED <<gemini_key, issues, performance_metrics, db_analyses, response,
                   hard_failure, rlVars, shotVars, aggVars, scanVars, cmpVars, reqVars,
                   sugVars, storeVars>>

\* a handler that goes on to the issue extraction without awaiting the
\* backlinks task
Analyze_SkipBacklinks ==
    /\ an_pc = "await_backlinks"
    /\ issues' = [performance |-> extract_performance_issues(lighthouse_result),
                  seo |-> extract_seo_issues(lighthouse_result),
                  accessibility |-> extract_accessibility_issues(lighthouse_result),
                  best_practices |-> extract_best_practices_issues(lighthouse_result)]
    /\ sug_pc' = "begin"
    /\ an_pc' = "suggest"
    /\ UNCHANGED <<gemini_key, performance_metrics, db_analyses, response,
                   hard_failure, ai_suggestions, sug_calls, sug_failed,
                   rlVars, shotVars, aggVars, scanVars, cmpVars, reqVars, storeVars>>

\* backlinks = await backlinks_task; the four extract_*_issues calls; the call
\* of generate_structured_ai_suggestions
Analyze_AwaitBacklinks ==
    /\ an_pc = "await_backlinks"
    /\ bl_pc = "returned"
    /\ issues' = [performance |-> extract_performance_issues(lighthouse_result),
                  seo |-> extract_seo_issues(lighthouse_result),
                  accessibility |-> extract_accessibility_issues(lighthouse_result),
                  best_practices |-> extract_best_practices_issues(lighthouse_result)]
    /\ sug_pc' = "begin"
    /\ an_pc' = "suggest"
    /\ UNCHANGED <<gemini_key, performance_metrics, db_analyses, response,
                   hard_failure, ai_suggestions, sug_calls, sug_failed,
                   rlVars, shotVars, aggVars, scanVars, cmpVars, reqVars, storeVars>>

\* ai_suggestions = await generate_structured_ai_suggestions(...);
\* performance_metrics = calculate_performance_metrics(...)
Analyze_CalculateMetrics ==
    /\ an_pc = "suggest"
    /\ sug_pc = "returned"
    /\ \E side \in FloatSides :
          performance_metrics' =
              calculate_performance_metrics(lighthouse_result, Len(keywords),
                                            Len(backlinks), side)
    /\ an_pc' = "insert"
    /\ UNCHANGED <<gemini_key, issues, db_analyses, response, hard_failure,
                   rlVars, shotVars, aggVars, scanVars, cmpVars, reqVars, sugVars, storeVars>>

\* await db.analyses.insert_one(analysis_result); return SEOAnalysisResponse(...)
Analyze_InsertAndRespond ==
    /\ an_pc = "insert"
    /\ store_ids' = store_ids + 1
    /\ \/ /\ db_analyses' = db_analyses \cup {AnalysisResult}
          /\ store_inserted' = (AnalysisResult.id :> AnalysisResult) @@ store_inserted
          /\ response' = [status |-> 200, body |-> AnalysisResult]
          /\ UNCHANGED hard_failure
       \/ \* the store raises: except Exception as e
          /\ response' = AnalysisFailed("store unavailable")
          /\ hard_failure' = TRUE
          /\ UNCHANGED <<db_analyses, store_inserted>>
    /\ an_pc' = "responded"
    /\ UNCHANGED <<gemini_key, issues, performance_metrics, store_clock, store_response,
                   rlVars, shotVars, aggVars, scanVars, cmpVars, reqVars, sugVars>>

Init ==
    /\ url_https \in BOOLEAN
    /\ rl_pc = "idle"
    /\ RunnerIdle
    /\ ShotsIdle
    /\ AggregateIdle
    /\ ScanIdle
    /\ CompetitorsIdle
    /\ RequestsIdle
    /\ SuggestIdle
    /\ an_pc = "start"
    /\ gemini_key \in BOOLEAN
    /\ issues = EmptyDict
    /\ performance_metrics = EmptyDict
    /\ db_analyses = {}
    /\ response = EmptyDict
    /\ hard_failure = FALSE
    /\ StoreIdle

Next ==
    \/ Analyze_CreateTasks
    \/ RunLighthouse_CreateTempFile
    \/ RunLighthouse_FullSpawn
    \/ RunLighthouse_FullWait(SiteScoreCards)
    \/ RunLighthouse_ReducedSpawn
    \/ RunLighthouse_ReducedWait(SiteScoreCards)
    \/ RunLighthouse_Heuristic(SitePages)
    \/ Screenshots_StartPlaywright
    \/ Screenshots_Launch
    \/ Screenshots_Capture
    \/ Screenshots_Close
    \/ Screenshots_ExitPlaywright
    \/ AnalyzeKeywords
    \/ AnalyzeBacklinks
    \/ Analyze_AwaitLighthouse
    \/ Analyze_AwaitScreenshots
    \/ Analyze_AwaitKeywords
    \/ Analyze_AwaitBacklinks
    \/ Suggest_Begin
    \/ \E i \in 1..Len(SuggestionOrder) : Suggest_Call(i)
    \/ Analyze_CalculateMetrics
    \/ Analyze_InsertAndRespond

Spec == Init /\ [][Next]_vars

-----------------------------------------------------------------------------
(* Claims about run_lighthouse_analysis, checked under SpecRunner *)

Returned == rl_pc = "returned"

LastStarted == tiers_started[Len(tiers_started)]

\* the key of categories that holds the score of result key k
ToolKey(k) == IF k = "best_practices" THEN "best-practices" ELSE k

\* C1: run_lighthouse_analysis never propagates an exception, and every result
\* it returns contains the four category scores.
C1_NeverRaises ==
    /\ rl_pc /= "raised"
    /\ Returned => CategoryKeys \subseteq DOMAIN lighthouse_result

\* C2: the tiers are entered in the order full, reduced, heuristic, static, each
\* only after every earlier tier has failed; no tier is entered after a tier
\* has succeeded; the returned result is that of the one tier that succeeded.
C2_TierOrder ==
    /\ Len(tiers_started) <= Len(Tiers)
    /\ \A i \in 1..Len(tiers_started) :
          /\ tiers_started[i] = Tiers[i]
          /\ \A j \in 1..(i - 1) : tier_outcome[Tiers[j]] = "failed"
    /\ \A t \in TierSet :
          /\ tier_outcome[t] /= "none" => \E i \in 1..Len(tiers_started) : tiers_started[i] = t
          /\ tier_outcome[t] = "ok" => (Returned /\ LastStarted = t)
    /\ Returned =>
          /\ tier_outcome[LastStarted] = "ok"
          /\ (LastStarted = "static") = Has(lighthouse_result, "error")
          /\ (LastStarted = "heuristic") = Has(lighthouse_result, "method")

C2_Witness ==
    /\ Returned
    /\ tiers_started = <<"full", "reduced", "heuristic">>
    /\ tier_outcome["heuristic"] = "ok"
    /\ process_full = "exited"
    /\ process_reduced = "exited"

\* C3: every returned result carries a tier value, and a result produced by a
\* tier below full is marked degraded = true.
C3_TierAndDegradedMarked ==
    Returned =>
        /\ Has(lighthouse_result, "tier")
        /\ tier_outcome["full"] /= "ok" =>
              /\ Has(lighthouse_result, "degraded")
              /\ lighthouse_result["degraded"] = TRUE

AllProbesFailed ==
    /\ tier_outcome["full"] = "failed"
    /\ tier_outcome["reduced"] = "failed"
    /\ tier_outcome["heuristic"] = "failed"

LabelledFallback(r) ==
    /\ Has(r, "error")
    /\ r.categories["performance"].title = "Performance (Fallback)"
    /\ r.categories["accessibility"].title = "Accessibility (Fallback)"
    /\ r.categories["best-practices"].title = "Best Practices (Fallback)"
    /\ r.categories["seo"].title = "SEO (Fallback)"

\* C4: when the full, the reduced and the heuristic probe have all failed the
\* result is the fixed defaults 0.5, 0.7, 0.6, 0.5 labelled as a fallback, and a
\* result labelled so is returned in no other case.
C4_StaticOnlyWhenAllFail ==
    Returned =>
        /\ AllProbesFailed =>
              /\ lighthouse_result.performance = 50
              /\ lighthouse_result.accessibility = 70
              /\ lighthouse_result.best_practices = 60
              /\ lighthouse_result.seo = 50
              /\ LabelledFallback(lighthouse_result)
        /\ Has(lighthouse_result, "error") => AllProbesFailed

C4_Witness ==
    /\ Returned
    /\ AllProbesFailed
    /\ tier_outcome["static"] = "ok"
    /\ Has(lighthouse_result, "error")

\* C5: every returned result has the four category scores and an audits
\* mapping; a score the scorecard does not give is 0.
C5_FourScoresAndAudits ==
    Returned =>
        /\ CategoryKeys \subseteq DOMAIN lighthouse_result
        /\ Has(lighthouse_result, "audits")
        /\ Has(lighthouse_result, "categories")
        /\ \A k \in CategoryKeys :
              LET c == lighthouse_result.categories
              IN lighthouse_result[k] =
                    IF Has(c, ToolKey(k)) /\ Has(c[ToolKey(k)], "score")
                    THEN c[ToolKey(k)].score
                    ELSE 0

C5_Witness ==
    /\ Returned
    /\ tier_outcome["reduced"] = "ok"
    /\ Has(lighthouse_result.categories, "performance")
    /\ ~Has(lighthouse_result.categories["performance"], "score")
    /\ ~Has(lighthouse_result.categories, "seo")
    /\ lighthouse_result.audits = EmptyDict
    /\ lighthouse_result.performance = 0
    /\ lighthouse_result.seo = 0

\* C6: each of the four category scores of a returned result lies in [0,1].
C6_ScoresInUnitInterval ==
    Returned =>
        \A k \in CategoryKeys :
            /\ lighthouse_result[k] >= 0
            /\ lighthouse_result[k] <= 100

\* the heuristic tier measured a load time above 5000 ms and more than ten
\* images without alt text
C6_Witness ==
    /\ Returned
    /\ tier_outcome["heuristic"] = "ok"
    /\ lighthouse_result.audits["first-contentful-paint"].numericValue > 3000
    /\ lighthouse_result.performance = 0
    /\ lighthouse_result.accessibility = 0
    /\ lighthouse_result.seo = 30

-----------------------------------------------------------------------------
(* Claims about calculate_performance_metrics, checked under SpecAggregate *)

AggregateTotal ==
    Get(agg_score, "performance", 0) + Get(agg_score, "accessibility", 0)
        + Get(agg_score, "best_practices", 0) + Get(agg_score, "seo", 0)

\* C7: the grade is a step function of the overall_score returned with it:
\* A iff overall_score >= 0.90, B iff 0.75 <= overall_score < 0.90,
\* C iff 0.60 <= overall_score < 0.75, D iff 0.40 <= overall_score < 0.60,
\* F iff overall_score < 0.40.
C7_GradeStepOfOverallScore ==
    agg_pc = "done" =>
        LET o == agg_metrics.overall_score
            g == agg_metrics.grade
        IN /\ (g = "A") = (o >= 90)
           /\ (g = "B") = (o >= 75 /\ o < 90)
           /\ (g = "C") = (o >= 60 /\ o < 75)
           /\ (g = "D") = (o >= 40 /\ o < 60)
           /\ (g = "F") = (o < 40)

\* C8: overall_score is the mean of the four category scores, an absent one
\* counting as 0, rounded to two decimals: a hundredth nearest to the mean.
C8_OverallIsRoundedMean ==
    agg_pc = "done" =>
        /\ 4 * agg_metrics.overall_score - AggregateTotal <= 2
        /\ AggregateTotal - 4 * agg_metrics.overall_score <= 2

\* a score is absent and the mean is rounded up
C8_Witness ==
    /\ agg_pc = "done"
    /\ ~Has(agg_score, "seo")
    /\ Has(agg_score, "performance")
    /\ AggregateTotal % 4 = 3
    /\ 4 * agg_metrics.overall_score = AggregateTotal + 1

-----------------------------------------------------------------------------
(* Claims about generate_responsive_screenshots, checked under SpecShots *)

\* C10: the returned list has exactly four entries, one per viewport profile,
\* in the order Mobile 375x667, Tablet 768x1024, Laptop 1366x768,
\* Desktop 1920x1080.
C10_FourEntriesInOrder ==
    shot_pc = "returned" =>
        /\ Len(screenshots) = 4
        /\ screenshots[1].device = "Mobile"
        /\ screenshots[1].width = "375" /\ screenshots[1].height = "667"
        /\ screenshots[2].device = "Tablet"
        /\ screenshots[2].width = "768" /\ screenshots[2].height = "1024"
        /\ screenshots[3].device = "Laptop"
        /\ screenshots[3].width = "1366" /\ screenshots[3].height = "768"
        /\ screenshots[4].device = "Desktop"
        /\ screenshots[4].width = "1920" /\ screenshots[4].height = "1080"

-----------------------------------------------------------------------------
(* Claims about analyze_website, checked under Spec *)

\* C9: the request aborts only on a hard failure: whatever the probes, the
\* screenshot capture, the scans and the suggestion service do, the response
\* is 200 with a complete report unless the store insert (or aggregation)
\* fails, and then it is 500 with detail "Analysis failed: ...".
C9_AbortsOnlyOnHardFailure ==
    an_pc = "responded" =>
        /\ ~hard_failure =>
              /\ response.status = 200
              /\ response.body \in db_analyses
        /\ hard_failure =>
              /\ response.status = 500
              /\ response.detail[1] = "Analysis failed: "

-----------------------------------------------------------------------------
(* Claims about generate_responsive_screenshots, second part *)

\* the entry of a viewport whose capture raised: no image, an error message
IsErrorEntry(entry, size) ==
    /\ entry.device = size.name
    /\ entry.screenshot = ""
    /\ "error" \in DOMAIN entry
    /\ entry.error /= ""

\* the entry of a captured viewport: image data and the fixed dimensions
IsCapturedEntry(entry, size) ==
    /\ entry.device = size.name
    /\ entry.screenshot /= ""
    /\ entry.width = ToString(size.width)
    /\ entry.height = ToString(size.height)
    /\ "error" \notin DOMAIN entry

SessionNotEstablished ==
    /\ shot_pc = "returned"
    /\ shot_idx = 1

\* C12: when the browser session cannot be established, the function returns
\* four entries, one per device in order, each with empty image data and a
\* non-empty error; it never returns an empty list.
C12_SessionFailureGivesFourErrors ==
    SessionNotEstablished =>
        /\ Len(screenshots) = Len(screen_sizes)
        /\ \A i \in 1..Len(screenshots) : IsErrorEntry(screenshots[i], screen_sizes[i])

-----------------------------------------------------------------------------
(* The issue extraction alone: lines 122-125 of analyze_website applied to   *)
(* probe results with every subset of metrics and fields absent              *)

\* numericValue of a timing audit, around its threshold; {} is "metric absent",
\* {EmptyDict} is "metric present without the field"
TimingOptions(threshold) ==
    { {}, {EmptyDict}, {[numericValue |-> threshold]}, {[numericValue |-> threshold + 500]} }

ShiftOptions == { {}, {[numericValue |-> 10]}, {[numericValue |-> 25]} }

UnusedCssOptions ==
    { {}, {EmptyDict}, {[details |-> EmptyDict]},
      {[details |-> [overallSavingsBytes |-> 10000]]},
      {[details |-> [overallSavingsBytes |-> 20000]]} }

ImageOptions == { {}, {EmptyDict}, {[score |-> 80]}, {[score |-> 50]} }

ScoreOptions == { {}, {EmptyDict}, {[score |-> 0]}, {[score |-> 99]}, {[score |-> 100]} }

\* the dict {metric: entry}, or {} when the metric is absent
AuditOf(metric, option) ==
    [m \in {x \in {metric} : option /= {}} |-> CHOOSE entry \in option : TRUE]

PerformanceAudits ==
    { AuditOf("first-contentful-paint", fcp) @@ AuditOf("largest-contentful-paint", lcp)
        @@ AuditOf("speed-index", si) @@ AuditOf("cumulative-layout-shift", cls)
        @@ AuditOf("unused-css-rules", css) @@ AuditOf("uses-optimized-images", img) :
        fcp \in TimingOptions(2000), lcp \in { {}, {[numericValue |-> 2500]}, {[numericValue |-> 3000]} },
        si \in { {}, {[numericValue |-> 3000]}, {[numericValue |-> 3500]} },
        cls \in ShiftOptions, css \in UnusedCssOptions, img \in ImageOptions }

\* the metrics of a rule table
MetricsOf(rules) == { rules[i].metric : i \in 1..Len(rules) }

\* every assignment of an option to every metric of a rule table
ScoreAudits(rules) ==
    { [m \in {x \in MetricsOf(rules) : choice[x] /= {}} |->
           CHOOSE entry \in choice[m] : TRUE] :
      choice \in [MetricsOf(rules) -> ScoreOptions] }

\* probe results handed to the extraction: audits absent, or one category's
\* audits in every combination
ExtractInputs ==
    { EmptyDict }
    \cup { [audits |-> a] : a \in PerformanceAudits }
    \cup { [audits |-> a] : a \in ScoreAudits(SeoRules) }
    \cup { [audits |-> a] : a \in ScoreAudits(AccessibilityRules) }
    \cup { [audits |-> a] : a \in ScoreAudits(BestPracticesRules) }

\* performance_issues, seo_issues, accessibility_issues, best_practices_issues
Extract_Issues ==
    /\ an_pc = "extract"
    /\ issues' = [performance |-> extract_performance_issues(lighthouse_result),
                  seo |-> extract_seo_issues(lighthouse_result),
                  accessibility |-> extract_accessibility_issues(lighthouse_result),
                  best_practices |-> extract_best_practices_issues(lighthouse_result)]
    /\ an_pc' = "extracted"
    /\ UNCHANGED <<gemini_key, performance_metrics, db_analyses, response, hard_failure,
                   rlVars, shotVars, aggVars, scanVars, cmpVars, reqVars, sugVars, storeVars>>

InitExtract ==
    /\ url_https = TRUE
    /\ rl_pc = "returned"
    /\ temp_file = "absent"
    /\ process_full = "none"
    /\ process_reduced = "none"
    /\ probed_page = EmptyDict
    /\ lighthouse_result \in ExtractInputs
    /\ tiers_started = <<>>
    /\ tier_outcome = [t \in TierSet |-> "none"]
    /\ ShotsIdle
    /\ AggregateIdle
    /\ ScanIdle
    /\ CompetitorsIdle
    /\ RequestsIdle
    /\ SuggestIdle
    /\ an_pc = "extract"
    /\ gemini_key = TRUE
    /\ issues = EmptyDict
    /\ performance_metrics = EmptyDict
    /\ db_analyses = {}
    /\ response = EmptyDict
    /\ hard_failure = FALSE
    /\ StoreIdle

NextExtract ==
    \/ Extract_Issues

SpecExtract == InitExtract /\ [][NextExtract]_vars

-----------------------------------------------------------------------------
(* Claims about the issue extraction, checked under SpecExtract *)

Range(seq) == { seq[i] : i \in 1..Len(seq) }

\* the audits mapping of the probe result, empty when absent
ResultAudits == IF Has(lighthouse_result, "audits") THEN lighthouse_result.audits ELSE EmptyDict

\* the probe result has the metric and the metric has the field
FieldPresent(metric, field) ==
    /\ Has(ResultAudits, metric)
    /\ Has(ResultAudits[metric], field)

\* the probe result has details.overallSavingsBytes of unused-css-rules
SavingsPresent ==
    /\ FieldPresent("unused-css-rules", "details")
    /\ Has(ResultAudits["unused-css-rules"].details, "overallSavingsBytes")

\* the message of a timing rule for the value v
TimingMessage(label, v) == label \o " is slow (" \o ToString(v) \o "ms)"

\* values a timing or shift message can quote
QuotedValues == {0, 10, 25, 2000, 2500, 3000, 3500}

\* all messages one performance rule can emit
RuleMessages(metric) ==
    CASE metric = "first-contentful-paint" ->
            { TimingMessage("First Contentful Paint", v) : v \in QuotedValues }
      [] metric = "largest-contentful-paint" ->
            { TimingMessage("Largest Contentful Paint", v) : v \in QuotedValues }
      [] metric = "speed-index" ->
            { TimingMessage("Speed Index", v) : v \in QuotedValues }
      [] metric = "cumulative-layout-shift" ->
            { "Cumulative Layout Shift is high (" \o FormatHundredths(v) \o ")" :
                  v \in QuotedValues }
      [] metric = "unused-css-rules" -> { "Unused CSS detected - remove unused styles" }
      [] metric = "uses-optimized-images" ->
            { "Images are not optimized - compress and serve in modern formats" }

\* the field a performance rule reads is absent from the probe result
PerformanceFieldAbsent(metric) ==
    CASE metric = "unused-css-rules" -> ~SavingsPresent
      [] metric = "uses-optimized-images" -> ~FieldPresent(metric, "score")
      [] OTHER -> ~FieldPresent(metric, "numericValue")

PerformanceMetricIds ==
    << "first-contentful-paint", "largest-contentful-paint", "speed-index",
       "cumulative-layout-shift", "unused-css-rules", "uses-optimized-images" >>

CategoryRules ==
    [seo |-> SeoRules, accessibility |-> AccessibilityRules,
     best_practices |-> BestPracticesRules]

\* C13: whatever subset of the metric ids, of the fields numericValue, score
\* and details, or the audits mapping itself, is absent, the four extraction
\* functions return (four lists) and emit no issue for a rule whose metric or
\* field is absent.
C13_AbsentMetricNeverFires ==
    an_pc = "extracted" =>
        /\ DOMAIN issues = {"performance", "seo", "accessibility", "best_practices"}
        /\ \A i \in 1..Len(PerformanceMetricIds) :
              PerformanceFieldAbsent(PerformanceMetricIds[i])
                  => RuleMessages(PerformanceMetricIds[i]) \cap Range(issues.performance) = {}
        /\ \A category \in DOMAIN CategoryRules :
              \A i \in 1..Len(CategoryRules[category]) :
                 ~FieldPresent(CategoryRules[category][i].metric, "score")
                     => CategoryRules[category][i].message \notin Range(issues[category])

\* a result whose FCP metric is absent while its LCP rule fires, and one
\* whose title audit has no score while its meta description rule fires
C13_Witness ==
    /\ an_pc = "extracted"
    /\ \/ /\ Has(lighthouse_result, "audits")
          /\ ~Has(ResultAudits, "first-contentful-paint")
          /\ TimingMessage("Largest Contentful Paint", 3000) \in Range(issues.performance)
       \/ /\ Has(ResultAudits, "document-title")
          /\ ~FieldPresent("document-title", "score")
          /\ issues.seo = << "Missing or poor meta description" >>

\* the rule of a score table is crossed: the score is there and below 1
ScoreCrossed(rule) ==
    /\ FieldPresent(rule.metric, "score")
    /\ ResultAudits[rule.metric].score < 100

\* the performance rules in declaration order: crossed or not, and the message
PerformanceRuleTable ==
    LET value(metric) == IF FieldPresent(metric, "numericValue")
                         THEN ResultAudits[metric].numericValue ELSE 0
        savings == IF SavingsPresent
                   THEN ResultAudits["unused-css-rules"].details.overallSavingsBytes ELSE 0
        image == IF FieldPresent("uses-optimized-images", "score")
                 THEN ResultAudits["uses-optimized-images"].score ELSE 100
    IN << [crossed |-> value("first-contentful-paint") > 2000,
           message |-> TimingMessage("First Contentful Paint",
                                     value("first-contentful-paint"))],
          [crossed |-> value("largest-contentful-paint") > 2500,
           message |-> TimingMessage("Largest Contentful Paint",
                                     value("largest-contentful-paint"))],
          [crossed |-> value("speed-index") > 3000,
           message |-> TimingMessage("Speed Index", value("speed-index"))],
          [crossed |-> value("cumulative-layout-shift") > 10,
           message |-> "Cumulative Layout Shift is high ("
                         \o FormatHundredths(value("cumulative-layout-shift")) \o ")"],
          [crossed |-> savings > 10000,
           message |-> "Unused CSS detected - remove unused styles"],
          [crossed |-> image < 80,
           message |-> "Images are not optimized - compress and serve in modern formats"] >>

\* a score table in the shape of PerformanceRuleTable
ScoreRuleTable(rules) ==
    [i \in 1..Len(rules) |->
        [crossed |-> ScoreCrossed(rules[i]), message |-> rules[i].message]]

\* list is the messages of the crossed rules of table, one each, in table order
ExactlyCrossed(list, table) ==
    /\ Len(list) = Cardinality({ i \in 1..Len(table) : table[i].crossed })
    /\ \A i \in 1..Len(table) :
          table[i].crossed <=> table[i].message \in Range(list)
    /\ \A i, j \in 1..Len(table) :
          i < j /\ table[i].crossed /\ table[j].crossed
              => \E m, n \in 1..Len(list) :
                    m < n /\ list[m] = table[i].message /\ list[n] = table[j].message

\* C14: each extraction function returns exactly the messages of the rules
\* whose threshold is crossed, one message per rule, in declaration order,
\* each rule independently of the others; for an FCP value v > 2000 there is
\* exactly one FCP message and it quotes v, for v <= 2000 there is none.
C14_ExactlyCrossedRulesInOrder ==
    an_pc = "extracted" =>
        /\ ExactlyCrossed(issues.performance, PerformanceRuleTable)
        /\ \A category \in DOMAIN CategoryRules :
              ExactlyCrossed(issues[category], ScoreRuleTable(CategoryRules[category]))
        /\ \A v \in QuotedValues :
              FieldPresent("first-contentful-paint", "numericValue")
                 /\ ResultAudits["first-contentful-paint"].numericValue = v
              => IF v > 2000
                 THEN Cardinality({ i \in 1..Len(issues.performance) :
                         issues.performance[i] \in RuleMessages("first-contentful-paint") }) = 1
                      /\ TimingMessage("First Contentful Paint", v) \in Range(issues.performance)
                 ELSE RuleMessages("first-contentful-paint") \cap Range(issues.performance) = {}

\* FCP of 2500 ms quoted once, ahead of the messages of two later rules
C14_Witness ==
    /\ an_pc = "extracted"
    /\ Len(issues.performance) = 3
    /\ issues.performance[1] = "First Contentful Paint is slow (2500ms)"
    /\ issues.performance[3] = "Images are not optimized - compress and serve in modern formats"

-----------------------------------------------------------------------------
(* The stored reports: db.analyses under POST /api/analyze,                  *)
(* GET /api/analysis/{id} and GET /api/analyses                              *)

\* .limit(50)
ListLimit == 50

\* reports already stored when the run starts
StoredAtStart == 49

\* analyze requests made in a run
MaxPosts == 2

\* change of datetime.utcnow() between two requests: the wall clock may stand
\* still or be set back
ClockSteps == {-1, 0, 1}

\* order in which the store returns documents of equal created_at
TieOrders == {"oldest_id_first", "newest_id_first"}

\* str() of the HTTPException(404): "" or "404: Analysis not found",
\* depending on the framework version
NotFoundTexts == {"", "404: Analysis not found"}

\* what the sub-operations of one analyze request produced
ReportParts ==
    { [lighthouse_score |-> StaticFallback,
       screenshots |-> <<>>,
       ai_suggestions |-> Placeholders("AI suggestions unavailable: service error"),
       keywords |-> kw,
       backlinks |-> <<>>,
       performance_metrics |-> calculate_performance_metrics(StaticFallback, Len(kw), 0, 0),
       issues |-> [performance |-> <<>>, seo |-> <<>>, accessibility |-> <<>>,
                   best_practices |-> <<>>]] : kw \in KeywordLists }

\* a collection that keeps only the document just inserted
InsertReplacing(collection, document) == {document}

\* db.analyses.insert_one(document)
InsertOne(collection, document) == collection \cup {document}

\* db.analyses.find_one({"_id": analysis_id}): the set of matching documents
FindOne(collection, analysis_id) == { d \in collection : d.id = analysis_id }

\* document d stands before document e in a listing newest first; documents
\* of equal created_at stand in the order of tie
NewerFirst(d, e, tie) ==
    \/ d.created_at > e.created_at
    \/ d.created_at = e.created_at
          /\ (IF tie = "oldest_id_first" THEN d.id < e.id ELSE d.id > e.id)

\* db.analyses.find().sort("created_at", -1): every document paired with the
\* number of documents that stand before it, then listed by that number
SortNewestFirst(collection, tie) ==
    LET placed == { <<Cardinality({ e \in collection : NewerFirst(e, d, tie) }) + 1, d>> :
                      d \in collection }
    IN [k \in 1..Cardinality(collection) |-> (CHOOSE p \in placed : p[1] = k)[2]]

\* a cursor without limit
Unlimited(list, n) == list

\* .limit(n)
Limit(list, n) == SubSeq(list, 1, Min(n, Len(list)))

\* the whole of analyze_website seen from the store: the sub-operations yield
\* parts (here always with keywords, unlike the reports stored at the start),
\* the document is assembled with a fresh id and the current time and
\* inserted, the report is returned
Store_Analyze ==
    /\ store_ids < StoredAtStart + MaxPosts
    /\ store_ids' = store_ids + 1
    /\ \E step \in ClockSteps : store_clock' = store_clock + step
    /\ \E parts \in { p \in ReportParts : p.keywords /= <<>> } :
          LET analysis_result == Document(store_ids', store_clock', parts)
          IN \/ /\ db_analyses' = InsertOne(db_analyses, analysis_result)
                /\ store_inserted' = (analysis_result.id :> analysis_result) @@ store_inserted
                /\ store_response' = [request |-> "analyze", id |-> analysis_result.id,
                                      status |-> 200, body |-> analysis_result]
             \/ \* insert_one raises: except Exception as e
                /\ store_response' = [request |-> "analyze", id |-> analysis_result.id,
                                      status |-> 500,
                                      detail |-> "Analysis failed: store unavailable"]
                /\ UNCHANGED <<db_analyses, store_inserted>>
    /\ UNCHANGED <<an_pc, gemini_key, issues, performance_metrics, response, hard_failure,
                   rlVars, shotVars, aggVars, scanVars, cmpVars, reqVars, sugVars>>

\* ids asked for: stored ones and ones never issued or not stored
ProbedIds == {1, StoredAtStart} \cup (StoredAtStart + 1)..(StoredAtStart + MaxPosts + 1)

\* GET /api/analysis/{analysis_id}
GetAnalysis ==
    /\ \E analysis_id \in ProbedIds :
          \/ /\ FindOne(db_analyses, analysis_id) /= {}
             /\ store_response' = [request |-> "get_analysis", id |-> analysis_id,
                                   status |-> 200,
                                   body |-> CHOOSE d \in FindOne(db_analyses, analysis_id) : TRUE]
          \/ \* if not result: raise HTTPException(404), caught by
             \* except Exception as e: raise HTTPException(500, detail=str(e))
             /\ FindOne(db_analyses, analysis_id) = {}
             /\ \E text \in NotFoundTexts :
                   store_response' = [request |-> "get_analysis", id |-> analysis_id,
                                      status |-> 500, detail |-> text]
          \/ \* find_one raises
             store_response' = [request |-> "get_analysis", id |-> analysis_id,
                                status |-> 500, detail |-> "store unavailable"]
    /\ UNCHANGED <<store_clock, store_ids, store_inserted, handlerVars,
                   rlVars, shotVars, aggVars, scanVars, cmpVars, reqVars, sugVars>>

\* GET /api/analyses
GetAllAnalyses ==
    /\ \/ \E tie \in TieOrders :
             store_response' = [request |-> "get_analyses", status |-> 200,
                                body |-> Limit(SortNewestFirst(db_analyses, tie), ListLimit)]
       \/ \* the cursor raises
          store_response' = [request |-> "get_analyses", status |-> 500,
                             detail |-> "store unavailable"]
    /\ UNCHANGED <<store_clock, store_ids, store_inserted, handlerVars,
                   rlVars, shotVars, aggVars, scanVars, cmpVars, reqVars, sugVars>>

\* the reports of StoredAtStart earlier requests, one per tick
StartDocuments ==
    { Document(n, n, CHOOSE parts \in ReportParts : parts.keywords = <<>>) :
        n \in 1..StoredAtStart }

InitStore ==
    /\ RunnerUnused
    /\ ShotsIdle
    /\ AggregateIdle
    /\ ScanIdle
    /\ CompetitorsIdle
    /\ RequestsIdle
    /\ SuggestIdle
    /\ an_pc = "idle"
    /\ gemini_key = TRUE
    /\ issues = EmptyDict
    /\ performance_metrics = EmptyDict
    /\ db_analyses = StartDocuments
    /\ response = EmptyDict
    /\ hard_failure = FALSE
    /\ store_clock = StoredAtStart
    /\ store_ids = StoredAtStart
    /\ store_response = EmptyDict
    /\ store_inserted = [n \in 1..StoredAtStart |-> CHOOSE d \in StartDocuments : d.id = n]

NextStore ==
    \/ Store_Analyze
    \/ GetAnalysis
    \/ GetAllAnalyses

SpecStore == InitStore /\ [][NextStore]_vars

-----------------------------------------------------------------------------
(* Claims about the stored reports, checked under SpecStore *)

\* the last request was of the given kind
LastRequest(kind) ==
    /\ Has(store_response, "request")
    /\ store_response.request = kind

\* the store itself answered the last request
StoreAnswered ==
    ~(store_response.status = 500 /\ store_response.detail = "store unavailable")

\* C15: GET /api/analysis/{id} responds 404 for every id for which no report
\* is stored, and with the stored report (status 200) for every id returned
\* by a successful POST /api/analyze.
C15_GetByIdFoundOr404 ==
    LastRequest("get_analysis") /\ StoreAnswered =>
        IF FindOne(db_analyses, store_response.id) = {}
        THEN store_response.status = 404
        ELSE /\ store_response.status = 200
             /\ store_response.body \in FindOne(db_analyses, store_response.id)

\* the ids of the stored documents
StoredIds == { d.id : d \in db_analyses }

\* every stored document is the one that was inserted under its id, and a
\* report read back is the one that was inserted
StoredAsInserted ==
    /\ \A d \in db_analyses :
          Has(store_inserted, d.id) /\ store_inserted[d.id] = d
    /\ Cardinality(db_analyses) = Cardinality(DOMAIN store_inserted)
    /\ LastRequest("get_analysis") /\ store_response.status = 200
          => store_response.body = store_inserted[store_response.id]

\* a successful analyze request inserts exactly one document, under an id not
\* in the store; no other request, and no failed one, changes the store
InsertOnceOnly ==
    IF store_ids' /= store_ids /\ store_response'.status = 200
    THEN /\ db_analyses \subseteq db_analyses'
         /\ db_analyses' \ db_analyses = {store_response'.body}
         /\ store_response'.body.id \notin StoredIds
    ELSE db_analyses' = db_analyses

\* C16: across any sequence of API requests, every successful POST
\* /api/analyze performs exactly one insert keyed by a fresh id, no request
\* updates or deletes a stored report, and the report read back for an id is
\* identical to the one inserted for it.
C16_InsertOnceReadSame ==
    []StoredAsInserted /\ [][InsertOnceOnly]_vars

\* a report inserted in this run was read back after a later insert
C16_Witness ==
    /\ LastRequest("get_analysis")
    /\ store_response.status = 200
    /\ store_response.id = StoredAtStart + 1
    /\ Cardinality(db_analyses) = StoredAtStart + 2

-----------------------------------------------------------------------------
(* generate_structured_ai_suggestions alone, for scores on both sides of     *)
(* each priority threshold                                                   *)

\* the dict {category: score}, or {} when the score is absent
ScoreOf(category, option) ==
    [c \in {x \in {category} : option /= {}} |-> CHOOSE score \in option : TRUE]

\* probe results handed to the suggestion generator; {} is "score absent"
SuggestScores ==
    { ScoreOf("performance", p) @@ ScoreOf("seo", s) @@ ScoreOf("accessibility", a)
        @@ ScoreOf("best_practices", b) :
        p \in { {}, {69}, {70} }, s \in { {}, {79}, {80} },
        a \in { {79}, {80} }, b \in { {}, {79}, {80} } }

\* issue lists handed to the suggestion generator
SuggestIssues ==
    { [performance |-> <<>>, seo |-> <<>>, accessibility |-> <<>>, best_practices |-> <<>>],
      [performance |-> <<"Speed Index is slow (3500ms)">>,
       seo |-> <<"Missing or poor title tag">>,
       accessibility |-> <<>>,
       best_practices |-> <<"Uses deprecated APIs">>] }

InitSuggest ==
    /\ url_https = TRUE
    /\ rl_pc = "returned"
    /\ temp_file = "absent"
    /\ process_full = "none"
    /\ process_reduced = "none"
    /\ probed_page = EmptyDict
    /\ lighthouse_result \in SuggestScores
    /\ tiers_started = <<>>
    /\ tier_outcome = [t \in TierSet |-> "none"]
    /\ ShotsIdle
    /\ AggregateIdle
    /\ ScanIdle
    /\ CompetitorsIdle
    /\ RequestsIdle
    /\ sug_pc = "begin"
    /\ ai_suggestions = EmptyDict
    /\ sug_calls = 0
    /\ sug_failed = FALSE
    /\ an_pc = "suggest"
    /\ gemini_key \in BOOLEAN
    /\ issues \in SuggestIssues
    /\ performance_metrics = EmptyDict
    /\ db_analyses = {}
    /\ response = EmptyDict
    /\ hard_failure = FALSE
    /\ StoreIdle

NextSuggest ==
    \/ Suggest_Begin
    \/ \E i \in 1..Len(SuggestionOrder) : Suggest_Call(i)

SpecSuggest == InitSuggest /\ [][NextSuggest]_vars

-----------------------------------------------------------------------------
(* Claims about generate_structured_ai_suggestions, checked under SpecSuggest *)

SuggestionCategories == {"performance", "seo", "accessibility", "best_practices"}

\* C18: for every outcome of the suggestion collaborator (all calls succeed,
\* no API key configured, some call fails) ai_suggestions has an entry for
\* each of performance, seo, accessibility and best_practices, and each entry
\* has the fields suggestions, priority and issues.
C18_FourEntriesWithFields ==
    sug_pc = "returned" =>
        \A category \in SuggestionCategories :
            /\ Has(ai_suggestions, category)
            /\ {"suggestions", "priority", "issues"} \subseteq DOMAIN ai_suggestions[category]

\* the priority the thresholds give a category for its current score
ThresholdPriority(category, score) ==
    IF category \in {"performance", "seo"}
    THEN IF score < (IF category = "performance" THEN 70 ELSE 80) THEN "high" ELSE "medium"
    ELSE IF score < 80 THEN "medium" ELSE "low"

\* C19: in every result the priority of a category depends only on that
\* category's current score: performance high iff score < 0.7 else medium;
\* seo high iff score < 0.8 else medium; accessibility and best_practices
\* medium iff score < 0.8 else low.
C19_PriorityFromScoreOnly ==
    sug_pc = "returned" =>
        \A category \in SuggestionCategories :
            ai_suggestions[category].priority
                = ThresholdPriority(category, Get(lighthouse_result, category, 0))

\* the entry has exactly one suggestion, the given text
SinglePlaceholder(entry, text) == entry.suggestions = <<text>>

\* C20: generate_structured_ai_suggestions never raises: it always ends by
\* returning a dict; without a configured service it returns the fixed
\* placeholder for all four categories without any call to the
\* text-completion service; when a call (or the creation of the chat) fails
\* it returns an explicit placeholder message for all four categories.
C20_PlaceholdersInsteadOfErrors ==
    /\ sug_pc \in {"begin", "returned"} \cup SuggestionCategories
    /\ ~gemini_key => sug_calls = 0
    /\ sug_failed => sug_pc = "returned"
    /\ sug_pc = "returned" =>
          /\ DOMAIN ai_suggestions = SuggestionCategories
          /\ ~gemini_key =>
                \A category \in SuggestionCategories :
                    SinglePlaceholder(ai_suggestions[category],
                        "AI suggestions unavailable: Gemini API key not configured")
          /\ sug_failed =>
                \E text \in {"AI suggestions unavailable: service error",
                             "AI suggestions unavailable: chat initialisation failed"} :
                    \A category \in SuggestionCategories :
                        SinglePlaceholder(ai_suggestions[category], text)

\* two calls succeeded and the third raised: placeholders are returned
C20_Witness ==
    /\ sug_pc = "returned"
    /\ sug_failed
    /\ sug_calls = 3
    /\ ai_suggestions["performance"].suggestions
          = <<"AI suggestions unavailable: service error">>

-----------------------------------------------------------------------------
(* analyze_keywords and analyze_backlinks on pages of their own *)

\* longest run of distinct words in a page text
MaxWords == 21

\* largest number of distinct partner links on a page
MaxPartners == 11

WordLetters == <<"a", "b", "c", "d", "e", "f">>

\* the i-th of the three-letter words "waa", "wab", ..., "wff"
Word(i) == <<"w", WordLetters[(i \div 6) + 1], WordLetters[(i % 6) + 1]>>

\* "waa wab ... ": the first n words, each followed by a blank
WordRun(n) ==
    <<>> \o [k \in 1..(4 * n) |->
                IF k % 4 = 0 THEN " " ELSE Word((k - 1) \div 4)[((k - 1) % 4) + 1]]

\* pieces of text put before and after the run of words
Fragments ==
    { <<>>, <<"S", "E", "O", " ">>, <<"t", "h", "e", " ">>, <<"a", "b", " ">>,
      <<"w", "e", "b", "3", " ">>, <<"w", "a", "b", " ">>,
      <<"W", "a", "b", "-", "w", "a", "c", " ">>,
      <<"w", "f", "f", " ", "w", "f", "f", " ">>, <<"w", "a", "d", "_", "x", " ">> }

PageTitles == { <<>>, <<"W", "e", "a">> }

PageDescriptions == { <<>>, <<"w", "a", "b", " ", "w", "e", "a">> }

RunLengths == {0, 2, MaxWords - 2, MaxWords - 1, MaxWords}

TextPages ==
    { [HomePage EXCEPT !.title = t, !.meta_description = d,
                       !.text = before \o WordRun(n) \o after] :
        t \in PageTitles, d \in PageDescriptions, before \in Fragments,
        n \in RunLengths, after \in Fragments }

\* "https://waa.org/", "https://wab.org/", ...
Partner(i) == <<"h", "t", "t", "p", "s", ":", "/", "/">> \o Word(i) \o <<".", "o", "r",
                                                                         "g", "/">>

Partners(n) == <<>> \o [i \in 1..n |-> Partner(i - 1)]

PartnerCounts == {0, 1, MaxPartners - 2, MaxPartners - 1, MaxPartners}

\* other anchors of a page of a.io
OtherAnchors ==
    << <<"h", "t", "t", "p", "s", ":", "/", "/", "a", ".", "i", "o", "/", "a", "b", "o",
         "u", "t">>,
       <<"/", "c", "o", "n", "t", "a", "c", "t">>,
       <<"m", "a", "i", "l", "t", "o", ":", "i", "n", "f", "o", "@", "a", ".", "i", "o">>,
       <<"h", "t", "t", "p", ":", "/", "/", "p", "a", "r", "t", "n", "e", "r", ".", "n",
         "e", "t", "/">>,
       <<"h", "t", "t", "p", "s", ":", "/", "/", "w", "a", "a", ".", "o", "r", "g", "/">>,
       <<"h", "t", "t", "p", "s", ":", "/", "/", "t", ".", "c", "o", "/", "s", "h", "a",
         "r", "e", "?", "u", "=", "h", "t", "t", "p", "s", ":", "/", "/", "a", ".", "i",
         "o", "/">>,
       <<"h", "t", "t", "p", "s", ":", "/", "/", "b", "l", "o", "g", ".", "a", ".", "i",
         "o", "/">>,
       <<"h", "t", "t", "p", "-", "s", "t", "a", "t", "u", "s", ".", "h", "t", "m", "l">> >>

AnchorPages ==
    { [HomePage EXCEPT !.anchors =
          Partners(n) \o SelectSeq(OtherAnchors, LAMBDA href : href \in chosen)] :
        n \in PartnerCounts, chosen \in SUBSET { OtherAnchors[i] : i \in 1..Len(OtherAnchors) } }

ScanPages == TextPages \cup AnchorPages

InitScan ==
    /\ RunnerUnused
    /\ ShotsIdle
    /\ AggregateIdle
    /\ SuggestIdle
    /\ HandlerIdle
    /\ StoreIdle
    /\ CompetitorsIdle
    /\ RequestsIdle
    /\ site_page \in ScanPages
    /\ kw_pc = "start"
    /\ keywords = <<>>
    /\ kw_fetch = "none"
    /\ bl_pc = "start"
    /\ backlinks = <<>>
    /\ bl_fetch = "none"

NextScan ==
    \/ AnalyzeKeywords
    \/ AnalyzeBacklinks

SpecScan == InitScan /\ [][NextScan]_vars

\* the tokens analyze_keywords counts, in the order of the page
PageTokens == SelectSeq(findall_words(lower(all_text(site_page))), NotStopWord)

TokenCount(tokens, token) ==
    Cardinality({ i \in 1..Len(tokens) : tokens[i] = token })

TokenFirst(tokens, token) ==
    CHOOSE i \in 1..Len(tokens) :
        /\ tokens[i] = token
        /\ \A j \in 1..(i - 1) : tokens[j] # token

\* <<count, first occurrence>> of every token
TokenRanks(tokens) ==
    [token \in Range(tokens) |-> <<TokenCount(tokens, token), TokenFirst(tokens, token)>>]

\* rank a comes before rank b: more frequent, or as frequent and seen first
RanksBefore(a, b) ==
    \/ a[1] > b[1]
    \/ a[1] = b[1] /\ a[2] < b[2]

NoDuplicates(seq) == \A i, j \in 1..Len(seq) : seq[i] = seq[j] => i = j

\* C24: a keyword scan whose fetch succeeds returns at most 20 distinct
\* keywords, each a token of the page that is no stop word, in the order of
\* descending frequency with ties in the order of first occurrence, and every
\* token left out ranks after every keyword returned, which happens only when
\* 20 are returned
C24_TopTwentyByFrequency ==
    (kw_pc = "returned" /\ kw_fetch = "ok") =>
        LET tokens == PageTokens
            found == Range(tokens)
            rank == TokenRanks(tokens) @@ EmptyDict
        IN /\ Len(keywords) <= TopKeywords
           /\ NoDuplicates(keywords)
           /\ Range(keywords) \subseteq found
           /\ \A i, j \in 1..Len(keywords) :
                 i < j => RanksBefore(rank[keywords[i]], rank[keywords[j]])
           /\ \A token \in found \ Range(keywords) :
                 /\ Len(keywords) = TopKeywords
                 /\ \A i \in 1..Len(keywords) : RanksBefore(rank[keywords[i]], rank[token])

\* more than 20 distinct tokens, the first keyword is not the first token and
\* two keywords are equally frequent
C24_Witness ==
    /\ kw_pc = "returned"
    /\ kw_fetch = "ok"
    /\ Len(keywords) = TopKeywords
    /\ LET tokens == PageTokens
       IN /\ Cardinality(Range(tokens)) > TopKeywords
          /\ keywords[1] # tokens[1]
          /\ TokenCount(tokens, keywords[1]) > 1
          /\ TokenCount(tokens, keywords[2]) = TokenCount(tokens, keywords[3])

HttpSchemes == { <<"h", "t", "t", "p">>, <<"h", "t", "t", "p", "s">> }

\* an anchor target counts as an outbound link
Eligible(href) ==
    /\ urlparse_scheme(href) \in HttpSchemes
    /\ urlparse_hostname(href) # urlparse_hostname(site_page.url)

EligibleTargets == { href \in Range(site_page.anchors) : Eligible(href) }

\* C25: a backlink scan whose fetch succeeds returns at most 10 anchor
\* targets without duplicates, each with scheme http or https and a host
\* other than the host of the analysed URL, and all such targets of the page
\* when there are at most 10 of them
C25_EligibleTargetsUpToTen ==
    (bl_pc = "returned" /\ bl_fetch = "ok") =>
        /\ Len(backlinks) <= TopBacklinks
        /\ NoDuplicates(backlinks)
        /\ Range(backlinks) \subseteq EligibleTargets
        /\ Cardinality(EligibleTargets) <= TopBacklinks =>
              EligibleTargets \subseteq Range(backlinks)

\* C26: a scan whose fetch or parse fails returns the empty list and raises
\* nothing, and what either scan returns is what it returns on its own,
\* whether the other scan failed or not
C26_ScansFailEmptyAndApart ==
    /\ kw_pc \in {"start", "returned"}
    /\ bl_pc \in {"start", "returned"}
    /\ kw_pc = "returned" =>
          keywords = IF kw_fetch = "failed" THEN <<>> ELSE analyze_keywords(site_page)
    /\ bl_pc = "returned" =>
          IF bl_fetch = "failed"
          THEN backlinks = <<>>
          ELSE \E rotation \in SetOrders : backlinks = analyze_backlinks(site_page, rotation)

\* one scan failed, the other returned a non-empty list
C26_Witness ==
    /\ kw_pc = "returned"
    /\ bl_pc = "returned"
    /\ kw_fetch = "failed"
    /\ bl_fetch = "ok"
    /\ backlinks # <<>>

-----------------------------------------------------------------------------
(* analyze_competitors *)

\* largest number of competitor URLs in a request
MaxCompetitors == 2

\* the dict analyze_single_site_for_comparison returns from its try block
SiteEntry(page, keywords_, backlinks_) ==
    [url |-> page.url,
     title |-> page.title,
     meta_description |-> page.meta_description,
     keywords |-> keywords_,
     backlinks |-> backlinks_,
     headings |-> page.headings,
     word_count |-> word_count(page.text),
     internal_links |->
         Len(SelectSeq(page.anchors, LAMBDA href : ~startswith(href, <<"h", "t", "t", "p">>)))]

\* an entry for a failed scan that carries no "error" key
SiteErrorUntagged(url, e) ==
    [url |-> url, title |-> <<>>, meta_description |-> <<>>, keywords |-> <<>>,
     backlinks |-> <<>>, headings |-> [h1 |-> <<>>, h2 |-> <<>>, h3 |-> <<>>],
     word_count |-> 0, internal_links |-> 0]

\* the dict analyze_single_site_for_comparison returns from its except block
SiteError(url, e) ==
    [url |-> url, title |-> <<>>, meta_description |-> <<>>, keywords |-> <<>>,
     backlinks |-> <<>>, headings |-> [h1 |-> <<>>, h2 |-> <<>>, h3 |-> <<>>],
     word_count |-> 0, internal_links |-> 0, error |-> e]

\* what analyze_keywords(url) can return for the page the URL serves
KeywordScans(page) == { analyze_keywords(page) } \cup { ScanFailed(e) : e \in FetchErrors }

\* what analyze_backlinks(url) can return for the page the URL serves
BacklinkScans(page) ==
    { analyze_backlinks(page, rotation) : rotation \in SetOrders }
        \cup { ScanFailed(e) : e \in FetchErrors }

\* the entries analyze_single_site_for_comparison can return without raising
\* inside: the two scans, then its own fetch of the page
SiteScans(page) ==
    { SiteEntry(page, k, b) : k \in KeywordScans(page), b \in BacklinkScans(page) }

\* the entries it returns when its own fetch or the parser raises
SiteFailures(page) == { SiteError(page.url, e) : e \in FetchErrors }

\* the lines of a reply of the text service, blank lines and headers removed
InsightReplies == { <<"Add an FAQ section", "Target long-tail keywords">> }

\* the dict generate_competitive_insights returns from its except block or
\* when no key is configured
InsightsUnavailable(reason) == [insights |-> <<"AI insights unavailable: " \o reason>>]

\* the dict generate_competitive_insights returns after a reply
Insights(lines, count, now) ==
    [insights |-> lines, competitor_count |-> count, analysis_date |-> now]

RECURSIVE AllKeywords(_, _)
\* the keywords of the first k entries, in the order competitor_keywords.update
\* inserts them
AllKeywords(data, k) ==
    IF k = 0 THEN <<>> ELSE AllKeywords(data, k - 1) \o data[k].keywords

\* competitive_keywords[:20]
TopCompetitive == 20

\* extract_competitive_keywords, the set difference being iterated in the
\* order `rotation`
extract_competitive_keywords(primary, data, rotation) ==
    LET primary_keywords == { primary.keywords[i] : i \in 1..Len(primary.keywords) }
        competitor_keywords ==
            SelectSeq(AllKeywords(data, Len(data)), LAMBDA k : k \notin primary_keywords)
    IN Prefix(list_of_set(competitor_keywords, rotation), TopCompetitive)

\* f"{avg_competitor_word_count:.0f}" of total / count: to the nearest
\* integer, a half to the even neighbour
FormatMean(total, count) ==
    LET q == total \div count
        r == total % count
    IN IF 2 * r < count THEN q
       ELSE IF 2 * r > count THEN q + 1
       ELSE IF q % 2 = 0 THEN q ELSE q + 1

LengthGap(primary_word_count, average) ==
    [gap |-> "Content length gap: Your page has {primary_word_count} words vs competitor average of {avg_competitor_word_count:.0f} words",
     primary_word_count |-> primary_word_count,
     avg_competitor_word_count |-> average]

MissingH1 == [gap |-> "Missing H1 tag - critical for SEO"]

FewH2 == [gap |-> "Few H2 tags - consider adding more section headings"]

MissingMeta == [gap |-> "Missing meta description"]

RECURSIVE Total(_, _)
\* sum(c['word_count'] for c in competitor_data[:k])
Total(data, k) == IF k = 0 THEN 0 ELSE Total(data, k - 1) + data[k].word_count

\* identify_content_gaps with the mean taken over the entries without "error"
identify_content_gaps_of_scanned(primary, data) ==
    LET scanned == SelectSeq(data, LAMBDA c : ~Has(c, "error"))
    IN IF Len(data) = 0 \/ Len(scanned) = 0
       THEN <<>>
       ELSE LET total == Total(scanned, Len(scanned))
            IN (IF primary.word_count * Len(scanned) < total
                THEN <<LengthGap(primary.word_count, FormatMean(total, Len(scanned)))>>
                ELSE <<>>)
               \o (IF Len(primary.headings.h1) = 0 THEN <<MissingH1>> ELSE <<>>)
               \o (IF Len(primary.headings.h2) < 3 THEN <<FewH2>> ELSE <<>>)
               \o (IF primary.meta_description = <<>> THEN <<MissingMeta>> ELSE <<>>)

\* identify_content_gaps: the division by len(competitor_data) raises
\* ZeroDivisionError for an empty list, and the except block returns []
identify_content_gaps(primary, data) ==
    IF Len(data) = 0
    THEN <<>>
    ELSE LET total == Total(data, Len(data))
         IN (IF primary.word_count * Len(data) < total
             THEN <<LengthGap(primary.word_count, FormatMean(total, Len(data)))>>
             ELSE <<>>)
            \o (IF Len(primary.headings.h1) = 0 THEN <<MissingH1>> ELSE <<>>)
            \o (IF Len(primary.headings.h2) < 3 THEN <<FewH2>> ELSE <<>>)
            \o (IF primary.meta_description = <<>> THEN <<MissingMeta>> ELSE <<>>)

\* raise HTTPException(status_code=500, detail=f"Competitor analysis failed: {str(e)}")
CompetitorAnalysisFailed(reason) ==
    [status |-> 500, detail |-> <<"Competitor analysis failed: ", reason>>]

\* primary_analysis = await analyze_single_site_for_comparison(primary_url)
Competitors_ScanPrimary ==
    /\ cmp_pc = "start"
    /\ primary_analysis' \in SiteScans(cmp_request.primary_url)
                                \cup SiteFailures(cmp_request.primary_url)
    /\ cmp_pc' = "competitors"
    /\ UNCHANGED <<cmp_request, competitor_data, cmp_failed, cmp_scanning, cmp_peak,
                   comparison_insights,
                   competitive_keywords, content_gaps, cmp_response,
                   db_competitor_analyses,
                   rlVars, shotVars, aggVars, scanVars, sugVars, handlerVars, storeVars,
                   reqVars>>

\* a turn of the loop over competitor_urls begins: the call of
\* analyze_single_site_for_comparison(competitor_url); the body of the loop
\* awaits it, so no turn begins while one is awaited
Competitors_StartScan ==
    /\ cmp_pc = "competitors"
    /\ cmp_scanning = {}
    /\ Len(competitor_data) < Len(cmp_request.competitor_urls)
    /\ cmp_scanning' = {Len(competitor_data) + 1}
    /\ cmp_peak' = Max(cmp_peak, Cardinality(cmp_scanning'))
    /\ UNCHANGED <<cmp_pc, cmp_request, primary_analysis, competitor_data, cmp_failed,
                   comparison_insights, competitive_keywords, content_gaps,
                   cmp_response, db_competitor_analyses,
                   rlVars, shotVars, aggVars, scanVars, sugVars, handlerVars, storeVars,
                   reqVars>>

\* the awaited scan returns and competitor_data.append(competitor_analysis)
\* ends the turn
Competitors_ScanNext ==
    /\ cmp_pc = "competitors"
    /\ Len(competitor_data) + 1 \in cmp_scanning
    /\ cmp_scanning' = cmp_scanning \ {Len(competitor_data) + 1}
    /\ LET i == Len(competitor_data) + 1
           competitor_url == cmp_request.competitor_urls[i]
       IN \/ /\ \E competitor_analysis \in SiteScans(competitor_url) :
                   competitor_data' = Append(competitor_data, competitor_analysis)
             /\ UNCHANGED cmp_failed
          \/ /\ \E competitor_analysis \in SiteFailures(competitor_url) :
                   competitor_data' = Append(competitor_data, competitor_analysis)
             /\ cmp_failed' = cmp_failed \cup {i}
    /\ UNCHANGED <<cmp_peak, cmp_pc, cmp_request, primary_analysis, comparison_insights,
                   competitive_keywords, content_gaps, cmp_response,
                   db_competitor_analyses,
                   rlVars, shotVars, aggVars, scanVars, sugVars, handlerVars, storeVars,
                   reqVars>>

\* comparison_insights = await generate_competitive_insights(...), entered
\* when the loop is over
Competitors_Insights ==
    /\ cmp_pc = "competitors"
    /\ Len(competitor_data) = Len(cmp_request.competitor_urls)
    /\ \/ /\ ~gemini_key
          /\ comparison_insights' = InsightsUnavailable("Gemini API key not configured")
       \/ /\ gemini_key
          /\ \/ \E lines \in InsightReplies :
                   comparison_insights' = Insights(lines, Len(competitor_data), store_clock)
             \/ \* LlmChat or send_message raises
                comparison_insights' = InsightsUnavailable("service error")
    /\ cmp_pc' = "insights_done"
    /\ UNCHANGED <<cmp_request, primary_analysis, competitor_data, cmp_failed,
                   cmp_scanning, cmp_peak,
                   competitive_keywords, content_gaps, cmp_response,
                   db_competitor_analyses,
                   rlVars, shotVars, aggVars, scanVars, sugVars, handlerVars, storeVars,
                   reqVars>>

\* the document handed to insert_one; the response has the same fields
CompetitorResult(keywords_, gaps) ==
    [primary_url |-> cmp_request.primary_url.url,
     competitor_data |-> competitor_data,
     comparison_insights |-> comparison_insights,
     competitive_keywords |-> keywords_,
     content_gaps |-> gaps,
     created_at |-> store_clock]

\* extract_competitive_keywords, identify_content_gaps, insert_one and the
\* response
Competitors_StoreAndRespond ==
    /\ cmp_pc = "insights_done"
    /\ \E rotation \in SetOrders :
          competitive_keywords' =
              extract_competitive_keywords(primary_analysis, competitor_data, rotation)
    /\ content_gaps' = identify_content_gaps(primary_analysis, competitor_data)
    /\ \/ /\ db_competitor_analyses' =
                db_competitor_analyses
                    \cup {CompetitorResult(competitive_keywords', content_gaps')}
          /\ cmp_response' =
                [status |-> 200,
                 body |-> CompetitorResult(competitive_keywords', content_gaps')]
       \/ \* the store raises: except Exception as e
          /\ cmp_response' = CompetitorAnalysisFailed("store unavailable")
          /\ UNCHANGED db_competitor_analyses
    /\ cmp_pc' = "responded"
    /\ UNCHANGED <<cmp_request, primary_analysis, competitor_data, cmp_failed,
                   cmp_scanning, cmp_peak,
                   comparison_insights,
                   rlVars, shotVars, aggVars, scanVars, sugVars, handlerVars, storeVars,
                   reqVars>>

\* the n words from Word(first) on, each followed by a blank
WordRunFrom(first, n) ==
    <<>> \o [k \in 1..(4 * n) |->
                IF k % 4 = 0 THEN " "
                ELSE Word(first + ((k - 1) \div 4))[((k - 1) % 4) + 1]]

\* a page of 20 words with three H2 headings, a description and no H1
LongPage ==
    [url |-> <<"h", "t", "t", "p", "s", ":", "/", "/", "w", "a", "a", ".", "o", "r", "g">>,
     title |-> <<"W", "e", "a">>,
     meta_description |-> <<"w", "a", "b", " ", "w", "e", "a">>,
     text |-> WordRunFrom(0, TopKeywords),
     anchors |-> << <<"/", "a", "b", "o", "u", "t">>, <<"h", "t", "t", "p", "s", ":", "/",
                                                        "/", "a", ".", "i", "o">> >>,
     headings |-> [h1 |-> <<>>, h2 |-> <<"Plans", "Prices", "Contact">>, h3 |-> <<>>]]

\* a page of 20 words, 14 of them words of LongPage
OtherLongPage ==
    [LongPage EXCEPT
        !.url = <<"h", "t", "t", "p", "s", ":", "/", "/", "w", "a", "b", ".", "o", "r", "g">>,
        !.title = <<>>,
        !.meta_description = <<>>,
        !.text = WordRunFrom(6, TopKeywords)]

ShopPage ==
    [HomePage EXCEPT
        !.url = <<"h", "t", "t", "p", "s", ":", "/", "/", "s", "h", "o", "p", ".", "n",
                  "e", "t">>,
        !.title = <<"S", "h", "o", "p">>,
        !.text = <<"S", "E", "O", " ", "t", "o", "o", "l", " ", "s", "h", "o", "p">>]

PricesPage ==
    [HomePage EXCEPT
        !.url = <<"h", "t", "t", "p", "s", ":", "/", "/", "p", "r", "i", "c", "e", "s",
                  ".", "n", "e", "t">>,
        !.title = <<>>,
        !.meta_description = <<"P", "r", "i", "c", "e", "s">>,
        !.text = <<"s", "h", "o", "p", " ", "p", "r", "i", "c", "e", "s">>,
        !.anchors = <<>>]

PrimarySites == {HomePage, LongPage}

\* the sites competitor URLs are taken from
Roster == <<LongPage, OtherLongPage, ShopPage, PricesPage>>

\* the lists of at most n sites that follow one another in the roster
CompetitorLists(n) ==
    { SubSeq(Roster, slice[1], slice[2]) :
        slice \in { s \in (1..Len(Roster)) \X (0..Len(Roster)) :
                      s[1] - 1 <= s[2] /\ s[2] < s[1] + n } }

InitCompetitors ==
    /\ RunnerUnused
    /\ RequestsIdle
    /\ ShotsIdle
    /\ AggregateIdle
    /\ ScanIdle
    /\ SuggestIdle
    /\ StoreIdle
    /\ an_pc = "idle"
    /\ gemini_key \in BOOLEAN
    /\ issues = EmptyDict
    /\ performance_metrics = EmptyDict
    /\ db_analyses = {}
    /\ response = EmptyDict
    /\ hard_failure = FALSE
    /\ cmp_pc = "start"
    /\ \E primary \in PrimarySites, competitors \in CompetitorLists(MaxCompetitors) :
          cmp_request = [primary_url |-> primary, competitor_urls |-> competitors]
    /\ primary_analysis = EmptyDict
    /\ competitor_data = <<>>
    /\ cmp_failed = {}
    /\ cmp_scanning = {}
    /\ cmp_peak = 0
    /\ comparison_insights = EmptyDict
    /\ competitive_keywords = <<>>
    /\ content_gaps = <<>>
    /\ cmp_response = EmptyDict
    /\ db_competitor_analyses = {}

NextCompetitors ==
    \/ Competitors_ScanPrimary
    \/ Competitors_StartScan
    \/ Competitors_ScanNext
    \/ Competitors_Insights
    \/ Competitors_StoreAndRespond

SpecCompetitors == InitCompetitors /\ [][NextCompetitors]_vars

Reverse(seq) == [i \in 1..Len(seq) |-> seq[Len(seq) + 1 - i]]

\* the keywords found on a competitor's page and not on the primary page
Candidates ==
    Range(AllKeywords(competitor_data, Len(competitor_data)))
        \ Range(primary_analysis.keywords)

\* C21: the competitive keywords are a list without duplicates of exactly
\* the keywords some competitor has and the primary site has not when there
\* are at most 20 of them, of exactly 20 of them otherwise, and as a set they
\* are the same when the competitors are scanned in the opposite order
C21_CompetitiveKeywords ==
    cmp_pc = "responded" =>
        /\ NoDuplicates(competitive_keywords)
        /\ Range(competitive_keywords) \subseteq Candidates
        /\ Len(competitive_keywords) = Min(TopCompetitive, Cardinality(Candidates))
        /\ \A rotation \in SetOrders :
              Range(extract_competitive_keywords(primary_analysis, competitor_data,
                                                 rotation))
                  = Range(extract_competitive_keywords(primary_analysis,
                                                       Reverse(competitor_data),
                                                       rotation))

\* position of a message in the order identify_content_gaps appends them
GapKind(message) ==
    CASE message = MissingH1 -> 2
      [] message = FewH2 -> 3
      [] message = MissingMeta -> 4
      [] OTHER -> 1

\* C22: whatever the primary scan and the list of competitor scans, the
\* empty list included, the content gaps hold the length message, with the
\* primary word count and the mean competitor word count, exactly when the
\* primary count is below the mean, the missing-H1 message exactly when the
\* primary page has no H1, the few-H2 message exactly when it has fewer than
\* three H2, the missing-description message exactly when its description is
\* empty, and the messages come in that order
C22_ContentGapRules ==
    cmp_pc = "responded" =>
        LET n == Len(competitor_data)
            total == Total(competitor_data, n)
            words == primary_analysis.word_count
            present == Range(content_gaps)
        IN /\ (\E message \in present : GapKind(message) = 1)
                 <=> (n > 0 /\ words * n < total)
           /\ \A message \in present :
                 GapKind(message) = 1 => message = LengthGap(words, FormatMean(total, n))
           /\ MissingH1 \in present <=> Len(primary_analysis.headings.h1) = 0
           /\ FewH2 \in present <=> Len(primary_analysis.headings.h2) < 3
           /\ MissingMeta \in present <=> primary_analysis.meta_description = <<>>
           /\ \A i, j \in 1..Len(content_gaps) :
                 i < j => GapKind(content_gaps[i]) < GapKind(content_gaps[j])

\* the entries of competitor_data are those of the scans made so far, in
\* request order, the failed ones tagged and the others what the scan of
\* that site alone returns
EntriesMatchRequest ==
    /\ Len(competitor_data) <= Len(cmp_request.competitor_urls)
    /\ \A i \in 1..Len(competitor_data) :
          /\ competitor_data[i].url = cmp_request.competitor_urls[i].url
          /\ i \in cmp_failed <=> Has(competitor_data[i], "error")
          /\ i \notin cmp_failed =>
                competitor_data[i] \in SiteScans(cmp_request.competitor_urls[i])

\* a response carries one entry per requested competitor, and only the store
\* makes the request fail
EveryCompetitorAnswered ==
    cmp_pc = "responded" =>
        /\ Len(competitor_data) = Len(cmp_request.competitor_urls)
        /\ cmp_response.status = 200 =>
              cmp_response.body.competitor_data = competitor_data
        /\ cmp_response.status # 200 =>
              cmp_response = CompetitorAnalysisFailed("store unavailable")

\* a step leaves the entries already appended as they are
EntriesKept ==
    /\ Len(competitor_data') >= Len(competitor_data)
    /\ \A i \in 1..Len(competitor_data) : competitor_data'[i] = competitor_data[i]

\* C23: competitor_data holds one entry per requested competitor URL in
\* request order; a competitor whose scan fails gives an entry tagged with
\* the error at its position, changes no other entry and does not abort the
\* request
C23_OneEntryPerCompetitor ==
    /\ [](EntriesMatchRequest /\ EveryCompetitorAnswered)
    /\ [][EntriesKept]_vars

\* a 200 response after the first of two competitor scans failed and the
\* second succeeded
C23_Witness ==
    /\ cmp_pc = "responded"
    /\ cmp_response.status = 200
    /\ Len(competitor_data) = MaxCompetitors
    /\ cmp_failed = {1}
    /\ competitor_data[2].keywords # <<>>

-----------------------------------------------------------------------------
(* the order of the stages of analyze_website *)

\* the four probe tasks have been created
ProbesStarted ==
    /\ rl_pc # "idle"
    /\ shot_pc # "idle"
    /\ kw_pc # "idle"
    /\ bl_pc # "idle"

\* the four probe tasks have returned
ProbesCompleted ==
    /\ rl_pc = "returned"
    /\ shot_pc = "returned"
    /\ kw_pc = "returned"
    /\ bl_pc = "returned"

IssueLists == {"performance", "seo", "accessibility", "best_practices"}

\* the handler is past the four awaits
StagesInOrder ==
    /\ an_pc \notin {"idle", "start"} => ProbesStarted
    /\ issues # EmptyDict => ProbesCompleted
    /\ sug_pc # "idle" => ProbesCompleted /\ DOMAIN issues = IssueLists
    /\ performance_metrics # EmptyDict => ProbesCompleted /\ sug_pc = "returned"

\* the probe tasks whose variables a step changes
TasksStepping ==
    { task \in {"lighthouse", "screenshots", "keywords", "backlinks"} :
        CASE task = "lighthouse" -> rlVars' # rlVars
          [] task = "screenshots" -> shotVars' # shotVars
          [] task = "keywords" -> <<kw_pc, keywords, kw_fetch>>' # <<kw_pc, keywords, kw_fetch>>
          [] OTHER -> <<bl_pc, backlinks, bl_fetch>>' # <<bl_pc, backlinks, bl_fetch>> }

\* a step of a probe task touches the variables of that task alone
ProbesApart ==
    \/ an_pc = "start"
    \/ Cardinality(TasksStepping) <= 1

\* C27: the four probe tasks are all started before any is awaited, a step
\* of one never touches what another computes, and issue extraction, the
\* suggestion call and the aggregation start only after all four have
\* completed, the suggestion call only with all four issue lists at hand
C27_ProbesThenAggregation ==
    /\ []StagesInOrder
    /\ [][ProbesApart]_vars

\* the suggestion call is entered with the four probes completed
C27_Witness ==
    /\ an_pc = "suggest"
    /\ sug_pc = "begin"
    /\ ProbesCompleted
    /\ DOMAIN issues = IssueLists

-----------------------------------------------------------------------------
(* the subprocesses of run_lighthouse_analysis *)

\* the probes whose subprocess or browser session is alive
ActiveProbes ==
    { tier \in {"full", "reduced", "heuristic"} :
        CASE tier = "full" -> process_full = "running"
          [] tier = "reduced" -> process_reduced = "running"
          [] OTHER -> rl_pc = "heuristic" }

\* C28: at most one probe is active at any time: the subprocess or browser
\* session of a tier no longer runs when the next tier starts its own, however
\* the earlier tier ended
C28_OneProbeAtATime == Cardinality(ActiveProbes) <= 1

\* the wait of the full probe ends with its subprocess not having exited
FullTimeout ==
    /\ rl_pc = "full_wait"
    /\ rl_pc' # "full_wait"
    /\ process_full' # "exited"

\* the wait of the reduced probe ends with its subprocess not having exited
ReducedTimeout ==
    /\ rl_pc = "reduced_wait"
    /\ rl_pc' # "reduced_wait"
    /\ process_reduced' # "exited"

\* the heuristic probe raises, its browser session ending with the
\* async with block
HeuristicTimeout ==
    /\ rl_pc = "heuristic"
    /\ tier_outcome'["heuristic"] = "failed"

TimeoutsKillAndAdvance ==
    /\ FullTimeout => process_full' = "killed" /\ LastStarted' = "reduced"
    /\ ReducedTimeout => process_reduced' = "killed" /\ LastStarted' = "heuristic"
    /\ HeuristicTimeout => LastStarted' = "static" /\ rl_pc' = "returned"

\* C29: when the timeout of a tier expires, the subprocess or browser
\* session of that tier is forcibly terminated and the runner goes on to the
\* next tier, for the full, the reduced and the heuristic tier alike
C29_TimeoutKillsAndAdvances == [][TimeoutsKillAndAdvance]_vars

-----------------------------------------------------------------------------
(* analyze_website from the last await on: does the request get an answer *)

\* the four probe tasks have returned and the handler awaits the last of
\* them: the full probe succeeded, the screenshot session failed to start
InitRespond ==
    /\ url_https \in BOOLEAN
    /\ rl_pc = "returned"
    /\ temp_file = "absent"
    /\ process_full = "exited"
    /\ process_reduced = "none"
    /\ probed_page = EmptyDict
    /\ \E lighthouse_data \in SiteScoreCards :
          lighthouse_result = ProbeResult(lighthouse_data)
    /\ tiers_started = <<"full">>
    /\ tier_outcome = [t \in TierSet |-> IF t = "full" THEN "ok" ELSE "none"]
    /\ shot_pc = "returned"
    /\ shot_idx = 1
    /\ shot_browser = "none"
    /\ screenshots = AppendErrorEntries(<<>>, 1, "Playwright error: driver failed to start")
    /\ shot_failed = {}
    /\ AggregateIdle
    /\ site_page = HomePage
    /\ kw_pc = "returned"
    /\ \/ kw_fetch = "ok" /\ keywords = analyze_keywords(site_page)
       \/ kw_fetch = "failed" /\ keywords = <<>>
    /\ bl_pc = "returned"
    /\ \/ bl_fetch = "ok" /\ backlinks = analyze_backlinks(site_page, 0)
       \/ bl_fetch = "failed" /\ backlinks = <<>>
    /\ CompetitorsIdle
    /\ RequestsIdle
    /\ SuggestIdle
    /\ an_pc = "await_backlinks"
    /\ gemini_key \in BOOLEAN
    /\ issues = EmptyDict
    /\ performance_metrics = EmptyDict
    /\ db_analyses = {}
    /\ response = EmptyDict
    /\ hard_failure = FALSE
    /\ StoreIdle

NextRespond ==
    \/ Analyze_AwaitBacklinks
    \/ Suggest_Begin
    \/ \E i \in 1..Len(SuggestionOrder) : Suggest_Call(i)
    \/ Analyze_CalculateMetrics
    \/ Analyze_InsertAndRespond

\* the steps of the handler itself and the insert are taken when they can
\* be; await chat.send_message(...) carries no timeout, so nothing makes a
\* call to the text service end
SpecRespond ==
    /\ InitRespond
    /\ [][NextRespond]_vars
    /\ WF_vars(Analyze_AwaitBacklinks)
    /\ WF_vars(Suggest_Begin)
    /\ WF_vars(Analyze_CalculateMetrics)
    /\ WF_vars(Analyze_InsertAndRespond)

\* C30: no call waits without bound, so POST /api/analyze responds in the
\* end even when the text service never answers, and a suggestion call that
\* never returns does not hold up the rest of the report
C30_EventuallyResponds == <>(an_pc = "responded")

-----------------------------------------------------------------------------
(* The success condition of the full probe, checked under SpecRunner *)

\* the wait of the full probe ended by the timeout: process.kill() was called
FullTimedOut == process_full = "killed"

\* the subprocess exited and the output file was opened for reading: the
\* finally clause of the read has removed it (returncode was 0)
FullOutputRead == process_full = "exited" /\ temp_file = "absent"

\* the subprocess exited and the output file was never opened (returncode /= 0)
FullExitedNonZero == process_full = "exited" /\ temp_file = "present"

\* the result is built from scorecard lighthouse_data
BuiltFrom(r, lighthouse_data) ==
    LET categories == Get(lighthouse_data, "categories", EmptyDict)
    IN /\ DOMAIN r = {"performance", "accessibility", "best_practices", "seo",
                      "categories", "audits"}
       /\ r.categories = categories
       /\ r.audits = Get(lighthouse_data, "audits", EmptyDict)
       /\ \A k \in CategoryKeys :
             r[k] = Get(Get(categories, ToolKey(k), EmptyDict), "score", 0)

\* the step that ends the wait of the full probe
FullProbeDecided ==
    rl_pc = "full_wait" =>
        /\ tier_outcome'["full"] \in {"ok", "failed"}
        /\ tier_outcome'["full"] = "ok" =>
              /\ FullOutputRead'
              /\ rl_pc' = "returned"
              /\ tiers_started' = <<"full">>
              /\ \E lighthouse_data \in ScoreCards :
                    BuiltFrom(lighthouse_result', lighthouse_data)
        /\ (FullTimedOut' \/ FullExitedNonZero') => tier_outcome'["full"] = "failed"
        /\ tier_outcome'["full"] = "failed" =>
              /\ rl_pc' = "reduced_spawn"
              /\ tiers_started' = <<"full", "reduced">>
              /\ lighthouse_result' = lighthouse_result

\* no lower tier after a success, the reduced tier after every failure
FullProbeFollowed ==
    /\ tier_outcome["full"] = "ok" => (Returned /\ tiers_started = <<"full">>)
    /\ tier_outcome["full"] = "failed" =>
          (Len(tiers_started) >= 2 /\ tiers_started[2] = "reduced")

\* C32: the full probe succeeds only when its subprocess exited with code zero
\* within the timeout and the output was read as a scorecard; the result is
\* then built from that scorecard and no lower tier is entered; after a
\* timeout, a non-zero exit or an unreadable output the reduced probe is entered.
C32_FullProbeSuccessCondition == []FullProbeFollowed /\ [][FullProbeDecided]_vars

C32_Witness ==
    /\ Returned
    /\ tier_outcome["full"] = "ok"
    /\ FullOutputRead
    /\ tiers_started = <<"full">>
    /\ lighthouse_result.seo = 50
    /\ Has(lighthouse_result.audits, "meta-description")

-----------------------------------------------------------------------------
(* The scores of the heuristic probe, checked under SpecRunner *)

HeuristicSucceeded == Returned /\ tier_outcome["heuristic"] = "ok"

\* C36: a result of the heuristic probe that measured load time L ms, A images
\* without alt text and H h1 elements has performance (5000 - L)/5000 clamped
\* to [0,1], seo 1.0 less 0.3 for an empty title, 0.2 for no meta description,
\* 0.2 for H = 0 and 0.1 for H > 1, accessibility 1 - 0.1*A clamped to [0,1],
\* and best_practices 0.9 for an https URL and 0.5 otherwise.
C36_HeuristicScores ==
    HeuristicSucceeded =>
        LET L == probed_page.load_time
            A == probed_page.img_without_alt
            H == probed_page.h1_count
            r == lighthouse_result
        IN /\ r.performance * 50 = (IF L >= 5000 THEN 0 ELSE 5000 - L)
           /\ r.performance \in 0..100
           /\ r.seo = 100 - (IF probed_page.has_title THEN 0 ELSE 30)
                          - (IF probed_page.has_meta_description THEN 0 ELSE 20)
                          - (IF H = 0 THEN 20 ELSE 0)
                          - (IF H > 1 THEN 10 ELSE 0)
           /\ r.accessibility = (IF A >= 10 THEN 0 ELSE 100 - 10 * A)
           /\ r.best_practices = (IF url_https THEN 90 ELSE 50)

C36_Witness ==
    /\ HeuristicSucceeded
    /\ probed_page.load_time = 6500
    /\ probed_page.img_without_alt = 11
    /\ probed_page.h1_count = 2
    /\ ~probed_page.has_title
    /\ lighthouse_result.seo = 60
    /\ lighthouse_result.performance = 0
    /\ url_https

-----------------------------------------------------------------------------
(* Claims about the scans of analyze_competitors *)

\* C33: the scans of different competitor URLs run concurrently: a request
\* with two competitors or more that has been answered has had a moment at
\* which two scans had been started and neither had returned.
C33_ScansOverlap ==
    (cmp_pc = "responded" /\ Len(cmp_request.competitor_urls) >= 2) => cmp_peak >= 2

\* the candidates in the order of first discovery: competitors in request
\* order, keywords in the order of each competitor's list
FirstDiscovered ==
    LET found == AllKeywords(competitor_data, Len(competitor_data))
        keep == { i \in 1..Len(found) :
                    /\ found[i] \notin Range(primary_analysis.keywords)
                    /\ \A j \in 1..(i - 1) : found[j] # found[i] }
    IN <<>> \o [n \in 1..Cardinality(keep) |->
                   found[CHOOSE i \in keep : Cardinality({j \in keep : j <= i}) = n]]

\* C34: the competitive keywords are in the order of first discovery across
\* the competitors, the same list for the same scans, and of more than 20
\* candidates the first 20 discovered are kept.
C34_FirstDiscoveryOrder ==
    cmp_pc = "responded" =>
        competitive_keywords = Prefix(FirstDiscovered, TopCompetitive)

\* sum of the word counts of the pages whose scan did not fail among the
\* first k requested competitors
RECURSIVE ScannedWords(_)
ScannedWords(k) ==
    IF k = 0 THEN 0
    ELSE ScannedWords(k - 1)
            + (IF k \in cmp_failed THEN 0
               ELSE word_count(cmp_request.competitor_urls[k].text))

\* a failed scan leaves nothing but the URL and the error
ErrorEntriesEmpty ==
    \A i \in 1..Len(competitor_data) :
        i \in cmp_failed =>
            /\ Has(competitor_data[i], "error")
            /\ competitor_data[i].keywords = <<>>
            /\ competitor_data[i].backlinks = <<>>
            /\ competitor_data[i].headings = [h1 |-> <<>>, h2 |-> <<>>, h3 |-> <<>>]
            /\ competitor_data[i].word_count = 0

\* C40: the mean of the length-gap rule is taken over every requested
\* competitor, a failed scan counting as 0 words, and an error-tagged entry
\* has empty keywords, backlinks and headings and word count 0.
C40_MeanCountsFailedScans ==
    /\ ErrorEntriesEmpty
    /\ (cmp_pc = "responded" /\ Len(cmp_request.competitor_urls) > 0) =>
          LET n == Len(cmp_request.competitor_urls)
              total == ScannedWords(n)
              words == primary_analysis.word_count
              messages == { message \in Range(content_gaps) : GapKind(message) = 1 }
          IN messages = IF words * n < total
                        THEN {LengthGap(words, FormatMean(total, n))}
                        ELSE {}

\* the second of two scans failed and the mean is half the first one's count
C40_Witness ==
    /\ cmp_pc = "responded"
    /\ cmp_failed = {2}
    /\ Len(competitor_data) = 2
    /\ competitor_data[1].word_count = 20
    /\ primary_analysis.word_count = 2
    /\ \E message \in Range(content_gaps) :
          GapKind(message) = 1 /\ message.avg_competitor_word_count = 10

-----------------------------------------------------------------------------
(* The calls of generate_structured_ai_suggestions, checked under SpecSuggest *)

\* an entry built from a reply of the text service
Generated(entry) == Has(entry, "current_score")

\* the k-th call is the one for the k-th category, and follows the return
\* of the call before it; no call follows a failure
CallsInOrder ==
    sug_calls' # sug_calls =>
        /\ sug_calls' = sug_calls + 1
        /\ sug_calls' <= Len(SuggestionOrder)
        /\ sug_pc = SuggestionOrder[sug_calls']
        /\ ~sug_failed
        /\ \A k \in 1..sug_calls : Generated(ai_suggestions[SuggestionOrder[k]])

\* a result is generated throughout or placeholder throughout
NeverMixed ==
    sug_pc = "returned" =>
        /\ DOMAIN ai_suggestions = SuggestionCategories
        /\ \/ \A category \in SuggestionCategories : Generated(ai_suggestions[category])
           \/ \A category \in SuggestionCategories : ~Generated(ai_suggestions[category])
        /\ sug_failed =>
              \A category \in SuggestionCategories : ~Generated(ai_suggestions[category])
        /\ (\A category \in SuggestionCategories : Generated(ai_suggestions[category]))
              => sug_calls = Len(SuggestionOrder)

\* C39: the four text-completion calls are made one at a time in the order
\* performance, seo, accessibility, best_practices; after a failed call no
\* call is made and the result holds the placeholder for all four
\* categories, those already generated included, so that no result mixes
\* generated suggestions with placeholders.
C39_CallsInOrderNeverMixed == []NeverMixed /\ [][CallsInOrder]_vars

\* the call for seo failed after the one for performance had succeeded
C39_Witness ==
    /\ sug_pc = "returned"
    /\ sug_failed
    /\ sug_calls = 2
    /\ ~Generated(ai_suggestions["performance"])
    /\ ~Generated(ai_suggestions["seo"])

-----------------------------------------------------------------------------
(* The issue lists of a report whose audit came from a lower tier, checked
   under Spec *)

IssuesExtracted == issues # EmptyDict

\* C38: for a result of the heuristic or the static tier the seo,
\* accessibility and best-practices issue lists are empty whatever the
\* scores; for a result of the static tier the performance issue list is the
\* messages for First Contentful Paint (3000), Largest Contentful Paint
\* (5000) and Speed Index (4000), in that order.
C38_LowerTierIssueLists ==
    IssuesExtracted =>
        /\ (tier_outcome["heuristic"] = "ok" \/ tier_outcome["static"] = "ok") =>
              /\ issues["seo"] = <<>>
              /\ issues["accessibility"] = <<>>
              /\ issues["best_practices"] = <<>>
        /\ tier_outcome["static"] = "ok" =>
              issues["performance"] =
                  <<"First Contentful Paint is slow (3000ms)",
                    "Largest Contentful Paint is slow (5000ms)",
                    "Speed Index is slow (4000ms)">>

\* a report after the static tier, whose seo score of 0.5 has no message
C38_Witness ==
    /\ IssuesExtracted
    /\ tier_outcome["static"] = "ok"
    /\ lighthouse_result.seo = 50
    /\ Len(issues["performance"]) = 3
    /\ issues["seo"] = <<>>

-----------------------------------------------------------------------------
(* The fetches of the page markup in one analyze request, checked under Spec *)

\* the requests.get calls made for the scans of the request
MarkupFetches ==
    (IF kw_fetch = "none" THEN 0 ELSE 1) + (IF bl_fetch = "none" THEN 0 ELSE 1)

\* C35: within one analyze request the markup used for the keywords and for
\* the backlinks is fetched exactly once, so that both lists are derived from
\* the same response.
C35_MarkupFetchedOnce ==
    (kw_pc = "returned" /\ bl_pc = "returned") =>
        /\ MarkupFetches = 1
        /\ kw_fetch = bl_fetch

-----------------------------------------------------------------------------
(* The temporary scorecard file: run_lighthouse_analysis together with the
   reduced subprocess it has stopped waiting for *)

\* the reduced subprocess, still running after the wait for it was given up,
\* finishes its audit and writes the report to --output-path
Lighthouse_WriteOutput ==
    /\ rl_pc \in {"heuristic", "returned"}
    /\ process_reduced = "running"
    /\ process_reduced' = "exited"
    /\ temp_file' = "present"
    /\ UNCHANGED <<url_https, rl_pc, process_full, probed_page, lighthouse_result,
                   tiers_started, tier_outcome, notRunner>>

NextTempFile ==
    \/ NextRunner
    \/ Lighthouse_WriteOutput

SpecTempFile == InitRunner /\ [][NextTempFile]_vars

\* the step on which run_lighthouse_analysis returns
Returns == rl_pc # "returned" /\ rl_pc' = "returned"

\* C37: on every path on which run_lighthouse_analysis returns (full probe,
\* reduced probe, heuristic probe, static result) the temporary scorecard
\* file it created does not exist any more.
C37_TempFileGoneAtReturn == [][Returns => temp_file' = "absent"]_vars

-----------------------------------------------------------------------------
(* Concurrent analyze requests: the resources of their audits.  Each request
   runs run_lighthouse_analysis in a task of its own; of a run only its
   position, its temporary file and the debugging port of its browser are
   kept. *)

\* --remote-debugging-port of the chrome flags of the full probe
DebugPort == 9222

\* the ports the tool's launcher can draw when no port is given
LauncherPorts == (DebugPort + 1)..(DebugPort + MaxRequests)

PortsInUse == { audit_runs[r].port : r \in Requests } \ {0}

Step(r, pc, port) == [audit_runs EXCEPT ![r].pc = pc, ![r].port = port]

\* tempfile.NamedTemporaryFile(delete=False): a name no file has yet
Run_CreateTempFile(r) ==
    /\ audit_runs[r].pc = "start"
    /\ tmp_issued' = tmp_issued + 1
    /\ audit_runs' = [audit_runs EXCEPT ![r].pc = "full_spawn",
                                        ![r].temp_file = tmp_issued + 1]
    /\ UNCHANGED <<rlVars, shotVars, aggVars, scanVars, cmpVars, sugVars, handlerVars,
                   storeVars>>

\* the full probe is spawned with its fixed port, or the spawn raises
Run_FullSpawn(r) ==
    /\ audit_runs[r].pc = "full_spawn"
    /\ \/ audit_runs' = Step(r, "full_wait", DebugPort)
       \/ audit_runs' = Step(r, "reduced_spawn", 0)
    /\ UNCHANGED <<tmp_issued, rlVars, shotVars, aggVars, scanVars, cmpVars, sugVars,
                   handlerVars, storeVars>>

\* the full probe ends: its result is returned, or it has failed or was killed
Run_FullWait(r) ==
    /\ audit_runs[r].pc = "full_wait"
    /\ \/ audit_runs' = Step(r, "returned", 0)
       \/ audit_runs' = Step(r, "reduced_spawn", 0)
    /\ UNCHANGED <<tmp_issued, rlVars, shotVars, aggVars, scanVars, cmpVars, sugVars,
                   handlerVars, storeVars>>

\* the reduced probe is spawned without a port flag: the launcher draws a
\* port that is free; or the spawn raises
Run_ReducedSpawn(r) ==
    /\ audit_runs[r].pc = "reduced_spawn"
    /\ \/ \E port \in LauncherPorts \ PortsInUse :
             audit_runs' = Step(r, "reduced_wait", port)
       \/ audit_runs' = Step(r, "heuristic", 0)
    /\ UNCHANGED <<tmp_issued, rlVars, shotVars, aggVars, scanVars, cmpVars, sugVars,
                   handlerVars, storeVars>>

\* the reduced probe ends with a result or without, or the wait times out and
\* the subprocess is left running with its port
Run_ReducedWait(r) ==
    /\ audit_runs[r].pc = "reduced_wait"
    /\ \/ audit_runs' = Step(r, "returned", 0)
       \/ audit_runs' = Step(r, "heuristic", 0)
       \/ audit_runs' = Step(r, "heuristic", audit_runs[r].port)
    /\ UNCHANGED <<tmp_issued, rlVars, shotVars, aggVars, scanVars, cmpVars, sugVars,
                   handlerVars, storeVars>>

\* the heuristic probe or the static result: the browser of
\* get_basic_page_metrics is driven over a pipe and binds no port
Run_Heuristic(r) ==
    /\ audit_runs[r].pc = "heuristic"
    /\ audit_runs' = [audit_runs EXCEPT ![r].pc = "returned"]
    /\ UNCHANGED <<tmp_issued, rlVars, shotVars, aggVars, scanVars, cmpVars, sugVars,
                   handlerVars, storeVars>>

InitRequests ==
    /\ RunnerUnused
    /\ ShotsIdle
    /\ AggregateIdle
    /\ ScanIdle
    /\ SuggestIdle
    /\ HandlerIdle
    /\ StoreIdle
    /\ CompetitorsIdle
    /\ audit_runs = [r \in Requests |-> [pc |-> "start", temp_file |-> 0, port |-> 0]]
    /\ tmp_issued = 0

NextRequests ==
    \E r \in Requests :
        \/ Run_CreateTempFile(r)
        \/ Run_FullSpawn(r)
        \/ Run_FullWait(r)
        \/ Run_ReducedSpawn(r)
        \/ Run_ReducedWait(r)
        \/ Run_Heuristic(r)

SpecRequests == InitRequests /\ [][NextRequests]_vars

\* request r has an audit in progress
InProgress(r) == audit_runs[r].pc \notin {"start", "returned"}

\* C31: no resource is written by two tasks running at the same time: two
\* analyze requests in progress together never have the same temporary
\* scorecard file nor the same browser debugging port.
C31_NoSharedResource ==
    \A r1, r2 \in Requests :
        (r1 # r2 /\ InProgress(r1) /\ InProgress(r2)) =>
            /\ audit_runs[r1].temp_file # audit_runs[r2].temp_file
            /\ audit_runs[r1].port # 0 => audit_runs[r1].port # audit_runs[r2].port

=============================================================================
